---- MODULE Spec2Model ----
(***************************************************************************)
(* NotionService (src/src/notion.ts): the in-memory prompt cache, its      *)
(* asynchronous refresh through the Notion connector, and the template     *)
(* composition that runs on top of it; and the request handlers of the     *)
(* MCP server (index.ts, src/unnamed/part_000) that call the service.      *)
(*                                                                         *)
(* The service runs on one JavaScript event loop.  An async method runs    *)
(* without interruption up to its first await that really suspends, which  *)
(* is the connector call notion.databases.query; everything after the      *)
(* response (the normalisation loop, the cache assignment, the caller's    *)
(* continuation on the local list) runs without interruption again.  So    *)
(* every call is two steps: its start, and the arrival of its connector    *)
(* response (or error).                                                    *)
(*                                                                         *)
(* Strings the code inspects character by character (names, contents,      *)
(* user inputs) are sequences of one-character strings.                    *)
(***************************************************************************)
EXTENDS Integers, Sequences, FiniteSets, TLC

\* ------------------------------------------------------------------ bounds

\* Number of call slots: how many service calls may overlap.
MaxCalls == 2
\* How many times the clock advances in one behaviour.
MaxTicks == 2
\* Date.now() when the service is constructed (any positive epoch time).
StartTime == 1000000

\* ------------------------------------------------------- program constants

\* cacheExpiryTime's initial value, 5 * 60 * 1000.
DefaultCacheExpiryTime == 300000
\* The floor setCacheExpiryTime enforces.
MinCacheExpiryTime == 1000
\* lastCacheTime's initial value, also what clearCache stores.
NoCacheTime == 0

Calls == 1..MaxCalls
\* The clock's step, in ms: half the default expiry, so that a snapshot is
\* valid after one step and expired after two, or after one once the
\* expiry has been lowered.
TickDeltas == {150000}
\* Arguments tried for setCacheExpiryTime while calls are running.
ExpiryInputs == {500}

\* An optional value: undefined (a missing property) or a defined value.
Undefined == [defined |-> FALSE, val |-> <<>>]
Defined(v) == [defined |-> TRUE, val |-> v]

\* ------------------------------------------------------------------ strings

LB == <<"{", "{">>
RB == <<"}", "}">>
USER_INPUT == <<"U", "S", "E", "R", "_", "I", "N", "P", "U", "T">>
CURRENT_DATE == <<"C", "U", "R", "R", "E", "N", "T", "_", "D", "A", "T", "E">>
CURRENT_TIME == <<"C", "U", "R", "R", "E", "N", "T", "_", "T", "I", "M", "E">>
CURRENT_DATETIME == <<"C", "U", "R", "R", "E", "N", "T", "_", "D", "A", "T", "E", "T", "I", "M", "E">>
PROMPT_NAME == <<"P", "R", "O", "M", "P", "T", "_", "N", "A", "M", "E">>

\* The text {{KEY}}, which the pattern \{\{KEY\}\} matches literally.
Placeholder(key) == LB \o key \o RB

\* s has pat at position i (1-based).
MatchAt(s, pat, i) ==
    /\ i + Len(pat) - 1 <= Len(s)
    /\ \A k \in 1..Len(pat) : s[i + k - 1] = pat[k]

Contains(s, pat) == \E i \in 1..(Len(s) + 1) : MatchAt(s, pat, i)

\* Array.prototype.join(''): the segments one after the other.
RECURSIVE Join(_)
Join(segs) == IF segs = <<>> THEN <<>> ELSE Head(segs) \o Join(Tail(segs))

\* The replacement text of one match (ECMAScript GetSubstitution) for a
\* pattern without capture groups: $$ is a dollar sign, $& the match,
\* $` the text before the match, $' the text after it; any other
\* character, a lone dollar sign included, stands for itself.
RECURSIVE GetSubstitution(_, _, _, _)
GetSubstitution(rep, matched, before, after) ==
    IF rep = <<>> THEN <<>>
    ELSE IF Len(rep) >= 2 /\ rep[1] = "$" /\ rep[2] \in {"$", "&", "`", "'"}
    THEN (CASE rep[2] = "$" -> <<"$">>
            [] rep[2] = "&" -> matched
            [] rep[2] = "`" -> before
            [] rep[2] = "'" -> after)
         \o GetSubstitution(SubSeq(rep, 3, Len(rep)), matched, before, after)
    ELSE <<rep[1]>> \o GetSubstitution(Tail(rep), matched, before, after)

\* String.prototype.replace with a global literal pattern and a string
\* replacement: the matches are found left to right in the original
\* string, without overlap, and the replaced text is not scanned again.
RECURSIVE ReplaceFrom(_, _, _, _)
ReplaceFrom(s, pat, rep, i) ==
    IF i > Len(s) THEN <<>>
    ELSE IF MatchAt(s, pat, i)
    THEN GetSubstitution(rep, pat, SubSeq(s, 1, i - 1),
                         SubSeq(s, i + Len(pat), Len(s)))
         \o ReplaceFrom(s, pat, rep, i + Len(pat))
    ELSE <<s[i]>> \o ReplaceFrom(s, pat, rep, i + 1)

ReplaceAll(s, pat, rep) == ReplaceFrom(s, pat, rep, 1)

\* String.prototype.toLowerCase: a letter A-Z becomes a-z, every other
\* character is its own lower case.
UpperCaseLetters ==
    <<"A", "B", "C", "D", "E", "F", "G", "H", "I", "J", "K", "L", "M",
      "N", "O", "P", "Q", "R", "S", "T", "U", "V", "W", "X", "Y", "Z">>
LowerCaseLetters ==
    <<"a", "b", "c", "d", "e", "f", "g", "h", "i", "j", "k", "l", "m",
      "n", "o", "p", "q", "r", "s", "t", "u", "v", "w", "x", "y", "z">>

toLowerCaseChar(ch) ==
    IF \E i \in 1..Len(UpperCaseLetters) : UpperCaseLetters[i] = ch
    THEN LowerCaseLetters[CHOOSE i \in 1..Len(UpperCaseLetters) :
                             UpperCaseLetters[i] = ch]
    ELSE ch

RECURSIVE toLowerCase(_)
toLowerCase(s) ==
    IF s = <<>> THEN <<>>
    ELSE <<toLowerCaseChar(Head(s))>> \o toLowerCase(Tail(s))

\* Array.prototype.includes
Includes(s, x) == \E i \in 1..Len(s) : s[i] = x

\* Array.from(new Set(s)): the elements of s in the order of their first
\* occurrence, each once.
RECURSIVE Distinct(_, _)
Distinct(s, seen) ==
    IF s = <<>> THEN <<>>
    ELSE IF Head(s) \in seen THEN Distinct(Tail(s), seen)
    ELSE <<Head(s)>> \o Distinct(Tail(s), seen \cup {Head(s)})

ArrayFromSet(s) == Distinct(s, {})

\* ------------------------------------------------- upstream records

\* Category labels are strings too.  The label a prompt without categories
\* gets is the source's three-character "未分类", the label that stands for
\* every category its two-character "所有"; each of their characters is
\* written by its reading here.
UNCATEGORIZED == <<"wei", "fen", "lei">>
ALL_LABEL == <<"suo", "you">>
ALL == <<"a", "l", "l">>
LabelX == <<"x">>
LabelY == <<"y">>

\* One page of the connector's response.  hasProperties is FALSE for a
\* page object without a properties field, on which the property access
\* throws.  title, content and description are optional arrays of text
\* segments (plain_text), category an optional array of labels.
Page(id, title, content, description, category) ==
    [id |-> id, hasProperties |-> TRUE, title |-> title, content |-> content,
     description |-> description, category |-> category]

PartialPage(id) ==
    [id |-> id, hasProperties |-> FALSE, title |-> Undefined,
     content |-> Undefined, description |-> Undefined, category |-> Undefined]

NameT == <<"T">>
NameN == <<"N">>
NameZ == <<"Z">>
DescText == <<"d", "e", "s", "c">>

\* The database's contents at the moments a query may read it.
Batch1 ==
    << Page("p1", Defined(<<NameT>>), Defined(<<Placeholder(USER_INPUT)>>),
            Defined(<<DescText>>), Defined(<<LabelX>>)),
       Page("p2", Defined(<<>>), Defined(<<<<"c">>>>), Undefined, Undefined) >>

Batch2 ==
    << Page("p1", Defined(<<NameT, <<"2">>>>),
            Defined(<<Placeholder(USER_INPUT), <<" ">>, Placeholder(CURRENT_DATE)>>),
            Undefined, Defined(<<LabelX, LabelY>>)),
       PartialPage("p4"),
       Page("p3", Defined(<<NameN>>),
            Defined(<<Placeholder(PROMPT_NAME), <<":">>, Placeholder(USER_INPUT)>>),
            Defined(<<>>), Defined(<<>>)) >>

Batch3 == << >>

\* Names that differ in case only and a name that occurs twice, texts in
\* mixed case, a prompt that carries the label "所有", one without labels.
Batch4 ==
    << Page("P6", Defined(<<<<"t">>>>), Defined(<<<<"c">>>>),
            Defined(<<<<"A", "b">>>>), Defined(<<LabelY>>)),
       Page("p6", Defined(<<NameT>>), Defined(<<Placeholder(USER_INPUT)>>),
            Undefined, Defined(<<ALL_LABEL, LabelX>>)),
       Page("p7", Defined(<<NameT>>), Defined(<<<<"s", "B">>>>),
            Defined(<<<<"b">>, <<"T">>>>), Undefined),
       Page("p8", Defined(<<NameN>>), Defined(<<<<"a", "B">>>>),
            Defined(<<<<"x">>>>), Defined(<<LabelX, LabelY>>)) >>

NameF == <<"F">>
NameG == <<"G">>
FOO == <<"F", "O", "O">>

\* A title whose only segment is the empty text; a template with
\* placeholders the code does not know, {{FOO}} and {{user_input}}, among
\* ones it knows; a template in which a placeholder stands inside the
\* text "{{CURRENT_" ... "}}".
Batch5 ==
    << Page("e1", Defined(<<<<>>>>), Defined(<<<<"c">>>>), Undefined,
            Defined(<<LabelX>>)),
       Page("t1", Defined(<<NameF>>),
            Defined(<<Placeholder(FOO), <<" ">>,
                      Placeholder(toLowerCase(USER_INPUT)), <<" ">>,
                      Placeholder(USER_INPUT), Placeholder(USER_INPUT),
                      <<" ">>, Placeholder(PROMPT_NAME)>>),
            Defined(<<DescText>>), Undefined),
       Page("t2", Defined(<<NameG>>),
            Defined(<<LB, <<"C", "U", "R", "R", "E", "N", "T", "_">>,
                      Placeholder(USER_INPUT), RB>>),
            Undefined, Defined(<<LabelY>>)) >>

\* Three prompts of one category: two that share a name and differ in
\* content, and one whose content is empty.
Batch6 ==
    << Page("d1", Defined(<<NameT>>), Defined(<<<<"a">>, Placeholder(USER_INPUT)>>),
            Undefined, Defined(<<LabelX>>)),
       Page("d2", Defined(<<NameT>>), Defined(<<<<"b">>, Placeholder(USER_INPUT)>>),
            Undefined, Defined(<<LabelX>>)),
       Page("d3", Defined(<<NameN>>), Defined(<<>>), Undefined,
            Defined(<<LabelX>>)) >>

Batches == <<Batch1, Batch2, Batch3, Batch4, Batch5, Batch6>>
BatchIds == 1..Len(Batches)
\* The answers tried where only the cache matters: some prompts, none.
CacheBatchIds == {1, 3}

\* ------------------------------------------------- fetchPrompts: the loop

\* x?.map(t => t.plain_text).join('') || ''
TextOf(prop) == IF prop.defined THEN Join(prop.val) ELSE <<>>

NormalizePage_NoSentinel(page) ==
    IF ~page.hasProperties THEN <<>>
    ELSE IF ~page.title.defined \/ Len(page.title.val) = 0 THEN <<>>
    ELSE << [id |-> page.id,
             name |-> page.title.val[1],
             content |-> TextOf(page.content),
             description |-> TextOf(page.description),
             category |-> IF page.category.defined THEN page.category.val
                          ELSE <<>>] >>

\* The loop body of fetchPrompts for one page: the prompts it pushes, none
\* when the page is skipped or its processing throws (the inner catch).
NormalizePage(page) ==
    IF ~page.hasProperties THEN <<>>
    ELSE IF ~page.title.defined \/ Len(page.title.val) = 0 THEN <<>>
    ELSE LET categories == IF page.category.defined THEN page.category.val
                           ELSE <<>>
         IN << [id |-> page.id,
                name |-> page.title.val[1],
                content |-> TextOf(page.content),
                description |-> TextOf(page.description),
                category |-> IF Len(categories) = 0 THEN <<UNCATEGORIZED>>
                             ELSE categories] >>

RECURSIVE NormalizeBatch_StopsAtFailure(_)
NormalizeBatch_StopsAtFailure(results) ==
    IF results = <<>> THEN <<>>
    ELSE IF NormalizePage(Head(results)) = <<>> THEN <<>>
    ELSE NormalizePage(Head(results))
         \o NormalizeBatch_StopsAtFailure(Tail(results))

RECURSIVE NormalizeBatch(_)
NormalizeBatch(results) ==
    IF results = <<>> THEN <<>>
    ELSE NormalizePage(Head(results)) \o NormalizeBatch(Tail(results))

\* ------------------------------------------------------------------- state

VARIABLES
    promptsCache,     \* the snapshot: null, or the list of prompts
    lastCacheTime,    \* Date.now() when the snapshot was stored
    cacheExpiryTime,  \* ms a snapshot stays valid
    promptHandlingMode, \* what handleComposedPrompt does without a mode argument
    now,              \* Date.now()
    ticks,            \* how often the clock has advanced
    calls,            \* per call slot: the call awaiting the connector in it
    ret,              \* the outcome of the call that ended in the last step, if one did
    warm,             \* history: a getPrompts fetched successfully, no refresh/clear since
    clearPending,     \* history: clearCache ran and no getPrompts has started since
    lastExpiryArg,    \* history: the argument of the last setCacheExpiryTime
    server,           \* the server process: its configuration, and how far main() has got
    job,              \* the process_category_prompts request between two awaits of its loop
    log               \* the last log entry that shows a user input

vars == <<promptsCache, lastCacheTime, cacheExpiryTime, promptHandlingMode, now,
          ticks, calls, ret, warm, clearPending, lastExpiryArg, server, job,
          log>>

NullCache == [null |-> TRUE, items |-> <<>>]
Snapshot(prompts) == [null |-> FALSE, items |-> prompts]

\* A call slot.  kind is "none" for a free slot, else the service method
\* awaiting the connector: "get" (getPrompts), "refresh" (refreshCache),
\* "compose" (composePrompt, through findPromptByName), "findByName",
\* "findById", "list" (getPromptList), "paginate" (getPaginatedPrompts).  handler is the request handler of
\* the server that made the call, "none" for a direct call; handle says
\* that composePrompt was called by composeAndHandlePrompt, with the mode
\* argument `mode` ("" when none is given).  promptName, userInput, id,
\* category, query, page and pageSize are the arguments, pageArg and
\* pageSizeArg the numbers the request gave for the latter two, if it gave
\* any.  The other fields are what the
\* call found when it was invoked:
\*   fresh       (getPrompts) a getPrompts had fetched, no refresh/clear
\*               since, and the snapshot's age was below cacheExpiryTime
\*   stale       the snapshot was absent or its age was >= cacheExpiryTime
\*   afterClear  (getPrompts) it is the first getPrompts after a clearCache
\*   ownChange   its own first step changed the snapshot or the timestamp
\*   solo        no other step has changed them since it was invoked
\*   before      the calls whose queries were outstanding when it issued its own
\*   overtaken   the stored snapshot is the result of a query issued after its own
IdleCall ==
    [kind |-> "none", promptName |-> <<>>, userInput |-> <<>>,
     fresh |-> FALSE, stale |-> FALSE, afterClear |-> FALSE,
     ownChange |-> FALSE, solo |-> FALSE, before |-> {}, overtaken |-> FALSE,
     handler |-> "none", handle |-> FALSE, mode |-> "",
     id |-> "", category |-> <<>>, query |-> <<>>,
     page |-> 0, pageSize |-> 0, pageArg |-> Undefined, pageSizeArg |-> Undefined]

\* A PromptHandlingResult: text, and metadata with a processingInstruction
\* when metadata is TRUE.  NoResult is composeAndHandlePrompt's null.
NoResult ==
    [null |-> TRUE, text |-> <<>>, metadata |-> FALSE,
     processingInstruction |-> ""]

PromptHandlingResult(text, metadata, processingInstruction) ==
    [null |-> FALSE, text |-> text, metadata |-> metadata,
     processingInstruction |-> processingInstruction]

\* What a request handler ends with.  tag is "content" for a result object
\* with the payload (a list where the source serialises one with
\* JSON.stringify, a text, a count), "errorResponse" for the result object
\* of createErrorResponse, "throws" when an exception leaves the handler.
\* message tells the messages apart: "notFound" for the texts that begin
\* with "未找到" or "错误: 未找到", "failed" for a caught or escaping
\* failure of the service, "unknownTool" for "未知工具".
NoReply ==
    [tag |-> "none", message |-> "", list |-> <<>>, text |-> <<>>, count |-> 0,
     metadata |-> FALSE, processingInstruction |-> ""]

Content(list, text, count, metadata, processingInstruction) ==
    [tag |-> "content", message |-> "", list |-> list, text |-> text,
     count |-> count, metadata |-> metadata,
     processingInstruction |-> processingInstruction]

createErrorResponse(message) ==
    [NoReply EXCEPT !.tag = "errorResponse", !.message = message]

Throws(message) == [NoReply EXCEPT !.tag = "throws", !.message = message]

\* What getPaginatedPrompts returns: a window of the list as PromptInfo,
\* the list's length, the page and page size used, the number of pages.
NoPage == [items |-> <<>>, total |-> 0, page |-> 0, pageSize |-> 0, totalPages |-> 0]

\* The outcome of the call that a step ends; NoReturn after a step that
\* ends none.  tag is the outcome of the service method: "prompts" (a list
\* returned), "text" (a composed text), "prompt" (a prompt found), "page"
\* (a page of the list), "null", "error" (it threw), "none".
\*   snapshot        the list getPrompts gave the call
\*   fetched         the call issued a connector query
\*   response        the batch the connector answered with, 0 if none
\*   preCache        for a call answered without a query: the snapshot it found
\*   intact          for a call that threw: snapshot and timestamp are what
\*                   they were before the call's own steps
\*   overwroteNewer  its result replaced the result of a query issued later
\*   handled         what composeAndHandlePrompt returned
\*   paginated       what getPaginatedPrompts returned
\*   reply           what the request handler ended with
\*   listed          for process_category_prompts: the list it read when it began
\*   single          for process_category_prompts: every list its calls were
\*                   given is the one it read when it began
\* handler is the handler that ended in the step, "none" for a step of a
\* handler that goes on.
NoReturn ==
    [kind |-> "none", tag |-> "none", prompts |-> <<>>, text |-> <<>>,
     prompt |-> Undefined, promptName |-> <<>>, userInput |-> <<>>,
     fetched |-> FALSE, response |-> 0, preCache |-> NullCache,
     fresh |-> FALSE, stale |-> FALSE, afterClear |-> FALSE, solo |-> FALSE,
     intact |-> TRUE, overwroteNewer |-> FALSE,
     snapshot |-> <<>>, handler |-> "none", handle |-> FALSE, mode |-> "",
     id |-> "", category |-> <<>>, query |-> <<>>,
     page |-> 0, pageSize |-> 0, pageArg |-> Undefined, pageSizeArg |-> Undefined,
     handled |-> NoResult, paginated |-> NoPage, reply |-> NoReply,
     listed |-> <<>>, single |-> TRUE]

\* The locals of the process_category_prompts handler while it runs:
\* prompts as its getPrompts call returned it, filteredPrompts, how many
\* iterations of its loop are done, results.  single is history: every
\* list a call of the loop was given is `prompts`.
NoJob ==
    [active |-> FALSE, category |-> <<>>, userInput |-> <<>>, prompts |-> <<>>,
     filteredPrompts |-> <<>>, done |-> 0, results |-> <<>>, single |-> TRUE]

\* No log entry with a user input yet.
NoEntry == [written |-> FALSE, handler |-> "none", userInput |-> <<>>,
            preview |-> <<>>]

\* type PromptHandlingMode
Modes == {"return_only", "process_locally", "call_external_api"}
\* promptHandlingMode's initial value
DefaultPromptHandlingMode == "return_only"

\* The server process before main() runs, with what getServerConfig will
\* read from the command line and the environment: whether the API key and
\* the database id are given, the handling mode as given ("" when it is
\* not), the cache expiry time as parseInt reads it when one is given.
\* phase is "starting" before main() runs, "warming" while main() awaits
\* its first getPrompts, "serving" once the transport is connected,
\* "exited" after process.exit.
ServerConfig(notionApiKey, notionDatabaseId, handlingMode, expiry) ==
    [phase |-> "starting", notionApiKey |-> notionApiKey,
     notionDatabaseId |-> notionDatabaseId, handlingMode |-> handlingMode,
     cacheExpiryTime |-> expiry]

\* A server that was started with the credentials and nothing else, is
\* connected and has a service without a snapshot.
Constructed ==
    [ServerConfig(TRUE, TRUE, "", Undefined) EXCEPT !.phase = "serving"]

\* The service's fields as their initialisers set them.
InitService ==
    /\ promptsCache = NullCache
    /\ lastCacheTime = NoCacheTime
    /\ cacheExpiryTime = DefaultCacheExpiryTime
    /\ promptHandlingMode = DefaultPromptHandlingMode
    /\ now = StartTime
    /\ ticks = 0
    /\ calls = [c \in Calls |-> IdleCall]
    /\ ret = NoReturn
    /\ warm = FALSE
    /\ clearPending = FALSE
    /\ lastExpiryArg = Undefined
    /\ job = NoJob
    /\ log = NoEntry

Init ==
    /\ InitService
    /\ server = Constructed

\* ------------------------------------------------------------ the service

isCacheValid_Inverted(cache, last, expiry, t) ==
    /\ ~cache.null
    /\ t - last > expiry

isCacheValid_NoExpiry(cache, last, expiry, t) == ~cache.null

isCacheValid(cache, last, expiry, t) ==
    /\ ~cache.null
    /\ t - last < expiry

NameIs_IgnoringCase(p, name) == toLowerCase(p.name) = toLowerCase(name)

\* p => p.name === name
NameIs(p, name) == p.name = name

\* p => p.id === id
IdIs(p, id) == p.id = id

\* prompts.find(p => p.name === name): the first match, or undefined.
RECURSIVE FindByName(_, _)
FindByName(prompts, name) ==
    IF prompts = <<>> THEN Undefined
    ELSE IF NameIs(Head(prompts), name) THEN Defined(Head(prompts))
    ELSE FindByName(Tail(prompts), name)

\* prompts.find(p => p.id === id)
RECURSIVE FindById(_, _)
FindById(prompts, id) ==
    IF prompts = <<>> THEN Undefined
    ELSE IF IdIs(Head(prompts), id) THEN Defined(Head(prompts))
    ELSE FindById(Tail(prompts), id)

\* Date.prototype.toLocaleDateString / toLocaleTimeString / toLocaleString:
\* the locale's rendering of the time, a text without braces or dollar
\* signs.  The date and the time are one opaque character each here.
toLocaleDateString(t) == <<"<date>">>
toLocaleTimeString(t) == <<"<time>">>
toLocaleString(t) == <<"<date>", ",", " ", "<time>">>

\* composePrompt from "let finalPrompt = prompt.content" on.
Substitute(content, promptName, userInput, t) ==
    LET s0 == ReplaceAll(content, Placeholder(USER_INPUT), userInput)
        s1 == ReplaceAll(s0, Placeholder(CURRENT_DATE), toLocaleDateString(t))
        s2 == ReplaceAll(s1, Placeholder(CURRENT_TIME), toLocaleTimeString(t))
        s3 == ReplaceAll(s2, Placeholder(CURRENT_DATETIME), toLocaleString(t))
    IN ReplaceAll(s3, Placeholder(PROMPT_NAME), promptName)

\* The text of the call_external_api branch, "未实现的功能: 调用外部API处理
\* 提示词", as one opaque character.
NotImplementedText == <<"<not implemented>">>

handleComposedPrompt_ModeArgumentIgnored(finalPrompt, promptName, mode) ==
    LET handlingMode == promptHandlingMode
    IN CASE handlingMode = "return_only" ->
              PromptHandlingResult(finalPrompt, TRUE, "NO_FURTHER_PROCESSING_REQUIRED")
         [] handlingMode = "process_locally" ->
              PromptHandlingResult(finalPrompt, TRUE, "PROCESS_WITH_CURRENT_LLM")
         [] handlingMode = "call_external_api" ->
              PromptHandlingResult(NotImplementedText, FALSE, "")
         [] OTHER -> PromptHandlingResult(finalPrompt, FALSE, "")

handleComposedPrompt_ExternalReturnsPrompt(finalPrompt, promptName, mode) ==
    LET handlingMode == IF mode # "" THEN mode ELSE promptHandlingMode
    IN CASE handlingMode = "return_only" ->
              PromptHandlingResult(finalPrompt, TRUE, "NO_FURTHER_PROCESSING_REQUIRED")
         [] handlingMode = "process_locally" ->
              PromptHandlingResult(finalPrompt, TRUE, "PROCESS_WITH_CURRENT_LLM")
         [] OTHER -> PromptHandlingResult(finalPrompt, FALSE, "")

\* handlingMode = mode || this.promptHandlingMode, then the branches.
handleComposedPrompt(finalPrompt, promptName, mode) ==
    LET handlingMode == IF mode # "" THEN mode ELSE promptHandlingMode
    IN CASE handlingMode = "return_only" ->
              PromptHandlingResult(finalPrompt, TRUE, "NO_FURTHER_PROCESSING_REQUIRED")
         [] handlingMode = "process_locally" ->
              PromptHandlingResult(finalPrompt, TRUE, "PROCESS_WITH_CURRENT_LLM")
         [] handlingMode = "call_external_api" ->
              PromptHandlingResult(NotImplementedText, FALSE, "")
         [] OTHER -> PromptHandlingResult(finalPrompt, FALSE, "")

\* composeAndHandlePrompt after composePrompt returned finalPrompt (an
\* optional text): null for null and for the empty text.
HandleComposed(finalPrompt, promptName, mode) ==
    IF ~finalPrompt.defined \/ finalPrompt.val = <<>> THEN NoResult
    ELSE handleComposedPrompt(finalPrompt.val, promptName, mode)

\* composePrompt on the list its getPrompts returns.
ComposeFrom(prompts, promptName, userInput, t) ==
    IF promptName = <<>> \/ userInput = <<>> THEN Undefined
    ELSE LET prompt == FindByName(prompts, promptName)
         IN IF prompt.defined
            THEN Defined(Substitute(prompt.val.content, promptName, userInput, t))
            ELSE Undefined

PromptInfo_KeepsContent(prompt) == prompt

\* prompt => ({ id, name, description, category })
PromptInfo(prompt) ==
    [id |-> prompt.id, name |-> prompt.name,
     description |-> prompt.description, category |-> prompt.category]

\* prompts.map(prompt => ({ id, name, description, category }))
RECURSIVE PromptInfos(_)
PromptInfos(prompts) ==
    IF prompts = <<>> THEN <<>>
    ELSE <<PromptInfo(Head(prompts))>> \o PromptInfos(Tail(prompts))

Max(a, b) == IF a >= b THEN a ELSE b
Min(a, b) == IF a <= b THEN a ELSE b
\* Math.ceil(a / b) for a >= 0, b >= 1
Ceil(a, b) == (a + b - 1) \div b

\* getPaginatedPrompts on the list its getPrompts returns: page and
\* pageSize are clamped to a minimum of 1; the window of that page as
\* PromptInfo, empty beyond the last page; total; totalPages =
\* ceil(total / pageSize).
Paginate(prompts, page, pageSize) ==
    LET p == Max(page, 1)
        size == Max(pageSize, 1)
        total == Len(prompts)
    IN [items |-> PromptInfos(SubSeq(prompts, Min((p - 1) * size, total) + 1,
                                     Min(p * size, total))),
        total |-> total, page |-> p, pageSize |-> size,
        totalPages |-> Ceil(total, size)]

\* ---------------------------------------- the server's request handlers
\* Each handler from the statement after its await on the service; r is
\* what the service call ended with (r.tag "error": it threw).

\* The resource ListResources makes of a prompt.  The description
\* defaults to "提示词: " and the name; the prefix is one character here.
Resource(prompt) ==
    [uri |-> prompt.id, name |-> prompt.name,
     description |-> IF prompt.description # <<>> THEN prompt.description
                     ELSE <<"<prompt: >">> \o prompt.name]

RECURSIVE Resources(_)
Resources(prompts) ==
    IF prompts = <<>> THEN <<>>
    ELSE <<Resource(Head(prompts))>> \o Resources(Tail(prompts))

After_ListResources(r) ==
    IF r.tag = "error" THEN Throws("failed")
    ELSE Content(Resources(r.prompts), <<>>, 0, FALSE, "")

After_ReadResource(r) ==
    IF r.tag = "error" THEN Throws("failed")
    ELSE IF ~r.prompt.defined THEN Throws("notFound")
    ELSE Content(<<>>, r.prompt.val.content, 0, FALSE, "")

After_get_prompt_by_name(r) ==
    IF r.tag = "error" THEN Throws("failed")
    ELSE IF ~r.prompt.defined THEN createErrorResponse("notFound")
    ELSE Content(<<r.prompt.val>>, <<>>, 0, FALSE, "")

\* compose_prompt and process_composed_prompt, which differ in the mode
\* argument they pass only.
After_compose_prompt(r, result) ==
    IF r.tag = "error" THEN Throws("failed")
    ELSE IF result.null THEN createErrorResponse("notFound")
    ELSE Content(<<>>, result.text, 0, result.metadata,
                 result.processingInstruction)

\* process_category_prompts after the await that `call` was: its first
\* getPrompts (kind "get"), or the composeAndHandlePrompt call of one
\* iteration of its loop, which ended with r and `result`.  A thrown
\* error ends the handler in its catch block; an empty filteredPrompts
\* ends it before the loop; a non-null result is pushed to results.
JobStep(call, r, result) ==
    IF r.tag = "error" THEN [job EXCEPT !.active = FALSE]
    ELSE IF call.kind = "get"
    THEN LET InCategory(p) == Includes(p.category, call.category)
             filteredPrompts == SelectSeq(r.prompts, InCategory)
         IN [active |-> Len(filteredPrompts) > 0, category |-> call.category,
             userInput |-> call.userInput, prompts |-> r.prompts,
             filteredPrompts |-> filteredPrompts, done |-> 0,
             results |-> <<>>, single |-> TRUE]
    ELSE [job EXCEPT
            !.active = job.done + 1 < Len(job.filteredPrompts),
            !.done = @ + 1,
            !.results = IF result.null THEN @
                        ELSE Append(@, [promptName |-> call.promptName,
                                        result |-> result.text]),
            !.single = @ /\ (r.tag \in {"text", "null"} /\ r.kind = "compose"
                              /\ call.promptName # <<>> /\ call.userInput # <<>>
                                => r.snapshot = job.prompts)]

After_process_category_prompts(call, r, result) ==
    LET after == JobStep(call, r, result)
    IN IF r.tag = "error" THEN createErrorResponse("failed")
       ELSE IF Len(after.filteredPrompts) = 0 THEN createErrorResponse("notFound")
       ELSE IF after.active THEN NoReply
       ELSE Content(after.results, <<>>, Len(after.results), FALSE, "")

After_refresh_prompts(r) ==
    IF r.tag = "error" THEN createErrorResponse("failed")
    ELSE Content(<<>>, <<>>, Len(r.prompts), FALSE, "")

After_list_prompts(r) ==
    IF r.tag = "error" THEN createErrorResponse("failed")
    ELSE Content(r.prompts, <<>>, 0, FALSE, "")

MeansAll_CaseSensitive(category) == category = ALL \/ category = ALL_LABEL

\* category.toLowerCase() === "all" || category.toLowerCase() === "所有"
MeansAll(category) ==
    toLowerCase(category) = ALL \/ toLowerCase(category) = ALL_LABEL

After_get_prompts_by_category_SubstringMatch(r, category) ==
    IF r.tag = "error" THEN createErrorResponse("failed")
    ELSE IF MeansAll(category)
    THEN Content(PromptInfos(r.prompts), <<>>, 0, FALSE, "")
    ELSE LET InCategory(p) ==
                 \E i \in 1..Len(p.category) : Contains(p.category[i], category)
         IN Content(PromptInfos(SelectSeq(r.prompts, InCategory)),
                    <<>>, 0, FALSE, "")

\* prompts.filter(p => p.category.includes(category)).map(...), or every
\* prompt for "all" and "所有" in any letter case.
After_get_prompts_by_category(r, category) ==
    IF r.tag = "error" THEN createErrorResponse("failed")
    ELSE IF MeansAll(category)
    THEN Content(PromptInfos(r.prompts), <<>>, 0, FALSE, "")
    ELSE LET InCategory(p) == Includes(p.category, category)
         IN Content(PromptInfos(SelectSeq(r.prompts, InCategory)),
                    <<>>, 0, FALSE, "")

MatchType_DescriptionFirst(p, query) ==
    IF Contains(toLowerCase(p.description), query) THEN "description"
    ELSE IF Contains(toLowerCase(p.name), query) THEN "name"
    ELSE "content"

\* let matchType = "content"; if (name matches) ... else if (description matches) ...
MatchType(p, query) ==
    IF Contains(toLowerCase(p.name), query) THEN "name"
    ELSE IF Contains(toLowerCase(p.description), query) THEN "description"
    ELSE "content"

\* The map of search_prompts over the prompts its filter kept.
RECURSIVE SearchResults(_, _)
SearchResults(prompts, query) ==
    IF prompts = <<>> THEN <<>>
    ELSE LET p == Head(prompts)
         IN <<[id |-> p.id, name |-> p.name, description |-> p.description,
               category |-> p.category, matchType |-> MatchType(p, query)]>>
            \o SearchResults(Tail(prompts), query)

\* search_prompts; `query` is the argument, lower-cased before the await.
After_search_prompts(r, query) ==
    IF r.tag = "error" THEN createErrorResponse("failed")
    ELSE LET q == toLowerCase(query)
             Matches(p) == \/ Contains(toLowerCase(p.name), q)
                           \/ Contains(toLowerCase(p.description), q)
                           \/ Contains(toLowerCase(p.content), q)
         IN Content(SearchResults(SelectSeq(r.prompts, Matches), q),
                    <<>>, 0, FALSE, "")

\* prompts.flatMap(prompt => prompt.category)
RECURSIVE Categories(_)
Categories(prompts) ==
    IF prompts = <<>> THEN <<>>
    ELSE Head(prompts).category \o Categories(Tail(prompts))

\* ["所有", ...Array.from(new Set(prompts.flatMap(prompt => prompt.category)))]
After_list_categories(r) ==
    IF r.tag = "error" THEN createErrorResponse("failed")
    ELSE Content(<<ALL_LABEL>> \o ArrayFromSet(Categories(r.prompts)),
                 <<>>, 0, FALSE, "")

After_get_paginated_prompts_EmptyPageIsAnError(r) ==
    IF r.tag = "error" \/ r.paginated.items = <<>>
    THEN createErrorResponse("failed")
    ELSE Content(r.paginated.items, <<>>, r.paginated.total, FALSE, "")

\* get_paginated_prompts: the result serialised, or the error's text.
After_get_paginated_prompts(r) ==
    IF r.tag = "error" THEN createErrorResponse("failed")
    ELSE Content(r.paginated.items, <<>>, r.paginated.total, FALSE, "")

\* What the handler of `call` ends with when its service call ended with r
\* and, for the composing handlers, composeAndHandlePrompt with `result`.
Reply(call, r, result) ==
    CASE call.handler = "ListResources" -> After_ListResources(r)
      [] call.handler = "ReadResource" -> After_ReadResource(r)
      [] call.handler = "get_prompt_by_name" -> After_get_prompt_by_name(r)
      [] call.handler \in {"compose_prompt", "process_composed_prompt"} ->
           After_compose_prompt(r, result)
      [] call.handler = "process_category_prompts" ->
           After_process_category_prompts(call, r, result)
      [] call.handler = "refresh_prompts" -> After_refresh_prompts(r)
      [] call.handler = "list_prompts" -> After_list_prompts(r)
      [] call.handler = "get_prompts_by_category" ->
           After_get_prompts_by_category(r, call.category)
      [] call.handler = "search_prompts" -> After_search_prompts(r, call.query)
      [] call.handler = "list_categories" -> After_list_categories(r)
      [] call.handler = "get_paginated_prompts" -> After_get_paginated_prompts(r)
      [] OTHER -> NoReply

\* The outcome r of the service method of `call`, with what
\* composeAndHandlePrompt and the request handler make of it.
Answer(call, r) ==
    LET result == IF call.handle /\ r.tag # "error"
                  THEN HandleComposed(IF r.tag = "text" THEN Defined(r.text)
                                      ELSE Undefined,
                                      call.promptName, call.mode)
                  ELSE NoResult
        after == IF call.handler = "process_category_prompts"
                 THEN JobStep(call, r, result) ELSE NoJob
    IN [r EXCEPT
          !.handler = IF after.active THEN "none" ELSE call.handler,
          !.listed = after.prompts, !.single = after.single,
          !.handle = call.handle, !.mode = call.mode,
          !.id = call.id, !.category = call.category, !.query = call.query,
          !.page = call.page, !.pageSize = call.pageSize,
          !.pageArg = call.pageArg, !.pageSizeArg = call.pageSizeArg,
          !.handled = result, !.reply = Reply(call, r, result)]

\* ------------------------------------------------------- calls and steps

\* The outcome of `call`, which got the list `prompts` from getPrompts:
\* getPrompts and refreshCache return it, getPromptList its projection,
\* getPaginatedPrompts a page of it;
\* findPromptByName and findPromptById look a prompt up; composePrompt
\* looks the prompt up by name and composes, or returns null.
Return(call, prompts, fetched, response, overwrote) ==
    LET prompt == CASE call.kind \in {"compose", "findByName"} ->
                         FindByName(prompts, call.promptName)
                    [] call.kind = "findById" -> FindById(prompts, call.id)
                    [] OTHER -> Undefined
    IN Answer(call,
         [NoReturn EXCEPT
            !.kind = call.kind,
            !.tag = CASE call.kind = "compose" ->
                           IF prompt.defined THEN "text" ELSE "null"
                      [] call.kind \in {"findByName", "findById"} ->
                           IF prompt.defined THEN "prompt" ELSE "null"
                      [] call.kind = "paginate" -> "page"
                      [] OTHER -> "prompts",
            !.paginated = IF call.kind = "paginate"
                          THEN Paginate(prompts, call.page, call.pageSize)
                          ELSE NoPage,
            !.prompts = CASE call.kind \in {"compose", "findByName", "findById",
                                            "paginate"} -> <<>>
                          [] call.kind = "list" -> PromptInfos(prompts)
                          [] OTHER -> prompts,
            !.text = IF call.kind = "compose" /\ prompt.defined
                     THEN Substitute(prompt.val.content, call.promptName,
                                     call.userInput, now)
                     ELSE <<>>,
            !.prompt = prompt,
            !.promptName = call.promptName, !.userInput = call.userInput,
            !.fetched = fetched, !.response = response,
            !.preCache = IF fetched THEN NullCache ELSE promptsCache,
            !.fresh = call.fresh, !.stale = call.stale,
            !.afterClear = call.afterClear, !.solo = call.solo,
            !.overwroteNewer = overwrote, !.snapshot = prompts])

\* The outcome of `call` when it throws or returns null without a list.
ReturnWithout(call, tag, fetched, intact) ==
    Answer(call,
      [NoReturn EXCEPT
         !.kind = call.kind, !.tag = tag, !.promptName = call.promptName,
         !.userInput = call.userInput, !.fetched = fetched,
         !.fresh = call.fresh, !.stale = call.stale,
         !.afterClear = call.afterClear, !.solo = call.solo, !.intact = intact])

InFlight == {c \in Calls : calls[c].kind # "none"}

\* The slot a new call takes: the lowest free one.
Free(c) == c \notin InFlight /\ \A d \in Calls : d < c => d \in InFlight

\* A call as it enters the service, with what it finds there.  `changed`
\* says whether its first step changes the snapshot or the timestamp.
NewCall(kind, promptName, userInput, changed) ==
    [IdleCall EXCEPT
       !.kind = kind, !.promptName = promptName, !.userInput = userInput,
       !.fresh = /\ kind = "get"
                 /\ warm
                 /\ now - lastCacheTime < cacheExpiryTime,
       !.stale = promptsCache.null \/ now - lastCacheTime >= cacheExpiryTime,
       !.afterClear = (kind = "get" /\ clearPending),
       !.ownChange = changed, !.solo = TRUE,
       !.before = InFlight]

\* Slot d after a step of another call that changed the snapshot or the
\* timestamp (`changed`) and left the store without a snapshot
\* (`reset`).
Disturbed(d, changed, reset) ==
    IF d \notin InFlight THEN calls[d]
    ELSE [calls[d] EXCEPT
            !.solo = @ /\ ~changed,
            !.overtaken = @ /\ ~reset]

\* The process_category_prompts request after the step in which `call`
\* ended with `returned`: none is running once the handler has replied.
JobAfter(call, returned) ==
    IF call.handler # "process_category_prompts" THEN job
    ELSE LET after == JobStep(call, returned, returned.handled)
         IN IF after.active THEN after ELSE NoJob

\* truncateText's default maxLength
DefaultMaxLength == 30

\* truncateText
truncateText(text, maxLength) ==
    IF Len(text) > maxLength
    THEN SubSeq(text, 1, maxLength) \o <<".", ".", ".">>
    ELSE text

\* The log after the first statement of the handler of `call`:
\* compose_prompt, process_composed_prompt and process_category_prompts
\* log truncateText(userInput), the other handlers no user input.
Logged(call) ==
    IF \/ call.handler \in {"compose_prompt", "process_composed_prompt"}
       \/ call.handler = "process_category_prompts" /\ call.kind = "get"
    THEN [written |-> TRUE, handler |-> call.handler,
          userInput |-> call.userInput,
          preview |-> truncateText(call.userInput, DefaultMaxLength)]
    ELSE log

\* getPrompts, entered by `call` when the snapshot is `cache`: the cached
\* list when the cache is valid, else fetchPrompts up to its await.
\* `changed` says whether the caller has just replaced the snapshot by
\* `cache`.
EnterGetPrompts(c, call, cache, changed) ==
    IF isCacheValid(cache, lastCacheTime, cacheExpiryTime, now)
    THEN /\ ret' = Return(call, cache.items, FALSE, 0, FALSE)
         /\ job' = JobAfter(call, ret')
         /\ calls' = [d \in Calls |->
                        Disturbed(d, changed, changed /\ cache.null)]
    ELSE /\ ret' = NoReturn
         /\ job' = job
         /\ calls' = [d \in Calls |->
                        IF d = c THEN call
                        ELSE Disturbed(d, changed, changed /\ cache.null)]

Ask_TouchesTimestamp(c, call) ==
    /\ EnterGetPrompts(c, call, promptsCache, FALSE)
    /\ clearPending' = FALSE
    /\ log' = Logged(call)
    /\ lastCacheTime' = now
    /\ UNCHANGED <<promptsCache, cacheExpiryTime, promptHandlingMode, now,
                   ticks, warm, lastExpiryArg, server>>

\* A method that begins with getPrompts and writes no field itself.
Ask(c, call) ==
    /\ EnterGetPrompts(c, call, promptsCache, FALSE)
    /\ clearPending' = FALSE
    /\ log' = Logged(call)
    /\ UNCHANGED <<promptsCache, lastCacheTime, cacheExpiryTime,
                   promptHandlingMode, now, ticks, warm, lastExpiryArg,
                   server>>

getPrompts(c) ==
    /\ Free(c)
    /\ Ask(c, NewCall("get", <<>>, <<>>, FALSE))

\* refreshCache, called by `handler`, its first statement storing `cleared`.
RefreshWith(c, handler, cleared) ==
    /\ promptsCache' = cleared
    /\ EnterGetPrompts(c, [NewCall("refresh", <<>>, <<>>, cleared # promptsCache)
                             EXCEPT !.handler = handler],
                       cleared, cleared # promptsCache)
    /\ warm' = FALSE
    /\ clearPending' = FALSE
    /\ UNCHANGED <<lastCacheTime, cacheExpiryTime, promptHandlingMode, now,
                   ticks, lastExpiryArg, server, log>>

refreshCache_NoReset(c) ==
    /\ Free(c)
    /\ RefreshWith(c, "none", promptsCache)

refreshCache(c) ==
    /\ Free(c)
    /\ RefreshWith(c, "none", NullCache)

clearCache_ResetsMode ==
    /\ promptsCache' = NullCache
    /\ lastCacheTime' = NoCacheTime
    /\ promptHandlingMode' = DefaultPromptHandlingMode
    /\ calls' = [d \in Calls |->
                   Disturbed(d, promptsCache # NullCache
                                \/ lastCacheTime # NoCacheTime, TRUE)]
    /\ ret' = NoReturn
    /\ warm' = FALSE
    /\ clearPending' = TRUE
    /\ UNCHANGED <<cacheExpiryTime, now, ticks, lastExpiryArg, server, job,
                   log>>

clearCache ==
    /\ promptsCache' = NullCache
    /\ lastCacheTime' = NoCacheTime
    /\ calls' = [d \in Calls |->
                   Disturbed(d, promptsCache # NullCache
                                \/ lastCacheTime # NoCacheTime, TRUE)]
    /\ ret' = NoReturn
    /\ warm' = FALSE
    /\ clearPending' = TRUE
    /\ UNCHANGED <<cacheExpiryTime, promptHandlingMode, now, ticks, lastExpiryArg,
                   server, job, log>>

findPromptByName(c, name) ==
    /\ Free(c)
    /\ Ask(c, NewCall("findByName", name, <<>>, FALSE))

findPromptById(c, id) ==
    /\ Free(c)
    /\ Ask(c, [NewCall("findById", <<>>, <<>>, FALSE) EXCEPT !.id = id])

getPromptList(c) ==
    /\ Free(c)
    /\ Ask(c, NewCall("list", <<>>, <<>>, FALSE))

getPaginatedPrompts(c, page, pageSize) ==
    /\ Free(c)
    /\ Ask(c, [NewCall("paginate", <<>>, <<>>, FALSE)
                 EXCEPT !.page = page, !.pageSize = pageSize])

\* The first statement of composePrompt, then findPromptByName's getPrompts.
ComposeWith(c, call) ==
    IF call.promptName = <<>> \/ call.userInput = <<>>
    THEN /\ ret' = ReturnWithout(call, "null", FALSE, TRUE)
         /\ job' = JobAfter(call, ret')
         /\ log' = Logged(call)
         /\ UNCHANGED <<promptsCache, lastCacheTime, cacheExpiryTime,
                        promptHandlingMode, now, ticks, calls, warm,
                        clearPending, lastExpiryArg, server>>
    ELSE Ask(c, call)

composePrompt(c, promptName, userInput) ==
    /\ Free(c)
    /\ ComposeWith(c, NewCall("compose", promptName, userInput, FALSE))

composeAndHandlePrompt(c, promptName, userInput, mode) ==
    /\ Free(c)
    /\ ComposeWith(c, [NewCall("compose", promptName, userInput, FALSE)
                         EXCEPT !.handle = TRUE, !.mode = mode])

AfterWarmUp_ConnectsAnyway(call, returned) ==
    IF call.handler # "main" THEN server
    ELSE [server EXCEPT !.phase = "serving"]

\* main() after its await on getPrompts, for the call main() made: the
\* transport is connected when the call returned, the catch block exits
\* the process when it threw.  Any other call leaves the process as it is.
AfterWarmUp(call, returned) ==
    IF call.handler # "main" THEN server
    ELSE [server EXCEPT !.phase = IF returned THEN "serving" ELSE "exited"]

StoreSnapshot_Append(old, prompts) == Snapshot(old.items \o prompts)

\* this.promptsCache = prompts
StoreSnapshot(old, prompts) == Snapshot(prompts)

\* The connector answers the query of call c with batch b: the rest of
\* fetchPrompts, and of the methods that awaited it.
fetchPrompts_resolve(c, b) ==
    /\ c \in InFlight
    /\ LET prompts == NormalizeBatch(Batches[b])
       IN /\ promptsCache' = StoreSnapshot(promptsCache, prompts)
          /\ ret' = Return(calls[c], prompts, TRUE, b, calls[c].overtaken)
    /\ lastCacheTime' = now
    /\ calls' = [d \in Calls |->
                   IF d = c \/ d \notin InFlight THEN IdleCall
                   ELSE [calls[d] EXCEPT
                           !.solo = FALSE,
                           !.overtaken = (d \in calls[c].before),
                           !.before = @ \ {c}]]
    /\ warm' = IF calls[c].kind = "get" THEN TRUE ELSE warm
    /\ server' = AfterWarmUp(calls[c], TRUE)
    /\ job' = JobAfter(calls[c], ret')
    /\ UNCHANGED <<cacheExpiryTime, promptHandlingMode, now, ticks,
                   clearPending, lastExpiryArg, log>>

fetchPrompts_reject_ReturnsNoPrompts(c) ==
    /\ c \in InFlight
    /\ UNCHANGED <<promptsCache, lastCacheTime, cacheExpiryTime,
                   promptHandlingMode, now, ticks, warm, clearPending,
                   lastExpiryArg, log>>
    /\ server' = AfterWarmUp(calls[c], TRUE)
    /\ ret' = Return(calls[c], <<>>, TRUE, 0, FALSE)
    /\ job' = JobAfter(calls[c], ret')
    /\ calls' = [d \in Calls |->
                   IF d = c \/ d \notin InFlight THEN IdleCall
                   ELSE [calls[d] EXCEPT !.before = @ \ {c}]]

fetchPrompts_reject_StoresFailure(c) ==
    /\ c \in InFlight
    /\ promptsCache' = Snapshot(<<>>)
    /\ lastCacheTime' = now
    /\ UNCHANGED <<cacheExpiryTime, promptHandlingMode, now, ticks, warm,
                   clearPending, lastExpiryArg, log>>
    /\ server' = AfterWarmUp(calls[c], FALSE)
    /\ ret' = ReturnWithout(calls[c], "error", TRUE, FALSE)
    /\ job' = JobAfter(calls[c], ret')
    /\ calls' = [d \in Calls |->
                   IF d = c \/ d \notin InFlight THEN IdleCall
                   ELSE [calls[d] EXCEPT !.before = @ \ {c}]]

\* The connector call of c fails: the outer catch, where handleError throws.
fetchPrompts_reject(c) ==
    /\ c \in InFlight
    /\ UNCHANGED <<promptsCache, lastCacheTime, cacheExpiryTime,
                   promptHandlingMode, now, ticks, warm, clearPending,
                   lastExpiryArg, log>>
    /\ server' = AfterWarmUp(calls[c], FALSE)
    /\ ret' = ReturnWithout(calls[c], "error", TRUE,
                            /\ ~calls[c].ownChange
                            /\ promptsCache' = promptsCache
                            /\ lastCacheTime' = lastCacheTime)
    /\ job' = JobAfter(calls[c], ret')
    /\ calls' = [d \in Calls |->
                   IF d = c \/ d \notin InFlight THEN IdleCall
                   ELSE [calls[d] EXCEPT !.before = @ \ {c}]]

ClampExpiry_NoFloor(timeMs) == timeMs

\* if (timeMs < 1000) timeMs = 1000
ClampExpiry(timeMs) ==
    IF timeMs < MinCacheExpiryTime THEN MinCacheExpiryTime ELSE timeMs

setCacheExpiryTime(timeMs) ==
    /\ cacheExpiryTime' = ClampExpiry(timeMs)
    /\ lastExpiryArg' = Defined(timeMs)
    /\ ret' = NoReturn
    /\ UNCHANGED <<promptsCache, lastCacheTime, promptHandlingMode, now, ticks,
                   calls, warm, clearPending, server, job, log>>

getCacheExpiryTime == cacheExpiryTime

setPromptHandlingMode(mode) ==
    /\ promptHandlingMode' = mode
    /\ ret' = NoReturn
    /\ UNCHANGED <<promptsCache, lastCacheTime, cacheExpiryTime, now, ticks,
                   calls, warm, clearPending, lastExpiryArg, server, job, log>>

getPromptHandlingMode == promptHandlingMode

\* Time passes.
Tick(d) ==
    /\ ticks < MaxTicks
    /\ now' = now + d
    /\ ticks' = ticks + 1
    /\ ret' = NoReturn
    /\ UNCHANGED <<promptsCache, lastCacheTime, cacheExpiryTime,
                   promptHandlingMode, calls, warm, clearPending, lastExpiryArg,
                   server, job, log>>

\* ------------------------------------------- the server: handler entries
\* Each handler up to its await on the service.  String(argument) has been
\* applied to the arguments.

ListResources(c) ==
    /\ Free(c)
    /\ Ask(c, [NewCall("get", <<>>, <<>>, FALSE)
                 EXCEPT !.handler = "ListResources"])

\* id is the path of the uri without its leading slash.
ReadResource(c, id) ==
    /\ Free(c)
    /\ Ask(c, [NewCall("findById", <<>>, <<>>, FALSE)
                 EXCEPT !.handler = "ReadResource", !.id = id])

get_prompt_by_name(c, name) ==
    /\ Free(c)
    /\ Ask(c, [NewCall("findByName", name, <<>>, FALSE)
                 EXCEPT !.handler = "get_prompt_by_name"])

compose_prompt(c, promptName, userInput) ==
    /\ Free(c)
    /\ ComposeWith(c, [NewCall("compose", promptName, userInput, FALSE)
                         EXCEPT !.handler = "compose_prompt", !.handle = TRUE])

process_composed_prompt(c, promptName, userInput) ==
    /\ Free(c)
    /\ ComposeWith(c, [NewCall("compose", promptName, userInput, FALSE)
                         EXCEPT !.handler = "process_composed_prompt",
                                !.handle = TRUE, !.mode = "process_locally"])

process_category_prompts(c, category, userInput) ==
    /\ Free(c)
    /\ Ask(c, [NewCall("get", <<>>, userInput, FALSE)
                 EXCEPT !.handler = "process_category_prompts",
                        !.category = category])

\* A call of the process_category_prompts request awaits the connector.
JobWaiting ==
    \E c \in InFlight : calls[c].handler = "process_category_prompts"

\* The process_category_prompts handler is between two awaits that
\* completed without the connector: its continuation is queued as a
\* microtask, ahead of every other request and every connector answer.
JobRunning == job.active /\ ~JobWaiting

\* The next iteration of the loop of process_category_prompts:
\* composeAndHandlePrompt(prompt.name, userInput, "process_locally") up to
\* its await, for the next of filteredPrompts.
process_category_prompts_next(c) ==
    /\ job.active
    /\ ~JobWaiting
    /\ Free(c)
    /\ ComposeWith(c, [NewCall("compose",
                               job.filteredPrompts[job.done + 1].name,
                               job.userInput, FALSE)
                         EXCEPT !.handler = "process_category_prompts",
                                !.category = job.category,
                                !.handle = TRUE, !.mode = "process_locally"])

refresh_prompts(c) ==
    /\ Free(c)
    /\ RefreshWith(c, "refresh_prompts", NullCache)

list_prompts(c) ==
    /\ Free(c)
    /\ Ask(c, [NewCall("list", <<>>, <<>>, FALSE)
                 EXCEPT !.handler = "list_prompts"])

get_prompts_by_category(c, category) ==
    /\ Free(c)
    /\ Ask(c, [NewCall("get", <<>>, <<>>, FALSE)
                 EXCEPT !.handler = "get_prompts_by_category",
                        !.category = category])

search_prompts(c, query) ==
    /\ Free(c)
    /\ Ask(c, [NewCall("get", <<>>, <<>>, FALSE)
                 EXCEPT !.handler = "search_prompts", !.query = query])

list_categories(c) ==
    /\ Free(c)
    /\ Ask(c, [NewCall("get", <<>>, <<>>, FALSE)
                 EXCEPT !.handler = "list_categories"])

\* Number(argument) || fallback: the fallback for a missing or non-numeric
\* argument (NaN) and for 0.
NumberOr(argument, fallback) ==
    IF ~argument.defined \/ argument.val = 0 THEN fallback ELSE argument.val

\* get_paginated_prompts, a tool of the server's earlier versions.
get_paginated_prompts(c, page, pageSize) ==
    /\ Free(c)
    /\ Ask(c, [NewCall("paginate", <<>>, <<>>, FALSE)
                 EXCEPT !.handler = "get_paginated_prompts",
                        !.page = NumberOr(page, 1),
                        !.pageSize = NumberOr(pageSize, 10),
                        !.pageArg = page, !.pageSizeArg = pageSize])

\* A tool name that no case matches: the default branch.
UnknownTool ==
    /\ ret' = [NoReturn EXCEPT !.handler = "unknown",
                               !.reply = createErrorResponse("unknownTool")]
    /\ UNCHANGED <<promptsCache, lastCacheTime, cacheExpiryTime,
                   promptHandlingMode, now, ticks, calls, warm, clearPending,
                   lastExpiryArg, server, job, log>>

\* ---------------------------------------------------- the server: startup

ValidConfig_NoCheck(config) == TRUE

\* getServerConfig's validation: both credentials are non-empty strings.
ValidConfig(config) == config.notionApiKey /\ config.notionDatabaseId

\* config.promptHandlingMode: the mode given when it is one of the three,
\* return_only for any other text, undefined ("") when none is given.
ConfiguredMode(handlingMode) ==
    IF handlingMode = "" THEN ""
    ELSE IF handlingMode \in Modes THEN handlingMode
    ELSE "return_only"

\* main() up to its first await.  initializeServer reads the
\* configuration; without the credentials getServerConfig throws and the
\* catch block exits the process.  Otherwise the service is constructed,
\* with the configured mode if there is one, the expiry time is set if a
\* non-zero one is configured, and main() calls getPrompts to warm the
\* cache.
main(c) ==
    /\ server.phase = "starting"
    /\ Free(c)
    /\ IF ~ValidConfig(server)
       THEN /\ server' = [server EXCEPT !.phase = "exited"]
            /\ ret' = NoReturn
            /\ UNCHANGED <<promptsCache, lastCacheTime, cacheExpiryTime,
                           promptHandlingMode, now, ticks, calls, warm,
                           clearPending, lastExpiryArg, job, log>>
       ELSE /\ server' = [server EXCEPT !.phase = "warming"]
            /\ promptHandlingMode' =
                  IF ConfiguredMode(server.handlingMode) # ""
                  THEN ConfiguredMode(server.handlingMode)
                  ELSE promptHandlingMode
            /\ IF server.cacheExpiryTime.defined /\ server.cacheExpiryTime.val # 0
               THEN /\ cacheExpiryTime' = ClampExpiry(server.cacheExpiryTime.val)
                    /\ lastExpiryArg' = Defined(server.cacheExpiryTime.val)
               ELSE UNCHANGED <<cacheExpiryTime, lastExpiryArg>>
            /\ EnterGetPrompts(c, [NewCall("get", <<>>, <<>>, FALSE)
                                     EXCEPT !.handler = "main"],
                               promptsCache, FALSE)
            /\ clearPending' = FALSE
            /\ UNCHANGED <<promptsCache, lastCacheTime, now, ticks, warm, log>>

\* --------------------------------------------------------- specifications

Next ==
    \/ \E c \in Calls : getPrompts(c)
    \/ \E c \in Calls : refreshCache(c)
    \/ clearCache
    \/ \E c \in Calls : \E b \in CacheBatchIds : fetchPrompts_resolve(c, b)
    \/ \E c \in Calls : fetchPrompts_reject(c)
    \/ \E t \in ExpiryInputs : setCacheExpiryTime(t)
    \/ \E d \in TickDeltas : Tick(d)

Spec == Init /\ [][Next]_vars

\* The setter alone among the cache's operations, on a wide range of
\* arguments.
ExpiryArgs == {-1000, -1, 0, 1, 500, 999, 1000, 1001, 2000, 300000}

NextExpiry ==
    \/ \E t \in ExpiryArgs : setCacheExpiryTime(t)
    \/ \E c \in Calls : getPrompts(c)
    \/ \E c \in Calls : \E b \in CacheBatchIds : fetchPrompts_resolve(c, b)
    \/ \E c \in Calls : fetchPrompts_reject(c)
    \/ \E d \in TickDeltas : Tick(d)

SpecExpiry == Init /\ [][NextExpiry]_vars

\* Names and inputs tried for composePrompt.
PromptNames == {NameT, NameN, NameZ, <<>>}
UserInputs == {<<"X">>, Placeholder(CURRENT_DATE), <<>>}
\* The answers tried where the prompts' contents matter.
ComposeBatchIds == {1, 2}

NextCompose ==
    \/ \E c \in Calls : \E n \in PromptNames : \E u \in UserInputs :
          composePrompt(c, n, u)
    \/ \E c \in Calls : \E b \in ComposeBatchIds : fetchPrompts_resolve(c, b)
    \/ \E c \in Calls : fetchPrompts_reject(c)
    \/ clearCache

SpecCompose == Init /\ [][NextCompose]_vars

\* The server: requests of every kind from a client that waits for each
\* answer before it asks again, on a cache that is absent, valid or
\* expired.  (Overlapping calls of the service are what Spec explores.)  No request
\* begins while process_category_prompts is in its loop.
Quiet == InFlight = {} /\ ~job.active

ServerNames == {NameT, NameZ}
ServerInputs == {<<"X">>}
ServerIds == {"p1", "p9"}
ServerCategories == {LabelX, LabelY}
ServerQueries == {<<"T">>}

NextServer ==
    \/ \E c \in Calls : Quiet /\ ListResources(c)
    \/ \E c \in Calls : \E id \in ServerIds : Quiet /\ ReadResource(c, id)
    \/ \E c \in Calls : \E n \in ServerNames : Quiet /\ get_prompt_by_name(c, n)
    \/ \E c \in Calls : \E n \in ServerNames : \E u \in ServerInputs :
          Quiet /\ compose_prompt(c, n, u)
    \/ \E c \in Calls : \E n \in ServerNames : \E u \in ServerInputs :
          Quiet /\ process_composed_prompt(c, n, u)
    \/ \E c \in Calls : \E k \in ServerCategories : \E u \in ServerInputs :
          Quiet /\ process_category_prompts(c, k, u)
    \/ \E c \in Calls : process_category_prompts_next(c)
    \/ \E c \in Calls : Quiet /\ refresh_prompts(c)
    \/ \E c \in Calls : Quiet /\ list_prompts(c)
    \/ \E c \in Calls : \E k \in ServerCategories :
          Quiet /\ get_prompts_by_category(c, k)
    \/ \E c \in Calls : \E q \in ServerQueries : Quiet /\ search_prompts(c, q)
    \/ \E c \in Calls : Quiet /\ list_categories(c)
    \/ Quiet /\ UnknownTool
    \/ \E c \in Calls : \E b \in CacheBatchIds : fetchPrompts_resolve(c, b)
    \/ \E c \in Calls : fetchPrompts_reject(c)
    \/ \E d \in TickDeltas : Tick(d)

SpecServer == Init /\ [][NextServer]_vars

\* The queries, asked one at a time as well, on a wide range of arguments
\* and database contents.  What a query returns is computed from the list
\* its own getPrompts call gave it.
QueryNames == {NameT, <<"t">>, NameZ}
QueryIds == {"p6", "P6", "p9"}
QueryInputs == {<<"X">>, <<"$", "&">>, <<"a", "$", "$">>, <<>>}
ModeArguments == Modes \cup {""}
CategoryArguments ==
    {ALL, <<"A", "L", "L">>, <<"A", "l", "l">>, ALL_LABEL, LabelX,
     UNCATEGORIZED, <<"n", "o">>, <<"X">>, <<"wei">>}
SearchQueries == {<<"T">>, <<"B">>, <<"a", "b">>, <<"z", "z">>, <<>>}
QueryBatchIds == {2, 3, 4}

NextQueries ==
    \/ \E c \in Calls : \E n \in QueryNames : Quiet /\ findPromptByName(c, n)
    \/ \E c \in Calls : \E id \in QueryIds : Quiet /\ findPromptById(c, id)
    \/ \E c \in Calls : \E n \in QueryNames : \E u \in QueryInputs :
          Quiet /\ composePrompt(c, n, u)
    \/ \E c \in Calls : \E n \in QueryNames : \E u \in QueryInputs :
          \E m \in ModeArguments : Quiet /\ composeAndHandlePrompt(c, n, u, m)
    \/ \E m \in Modes : Quiet /\ setPromptHandlingMode(m)
    \/ \E c \in Calls : \E k \in CategoryArguments :
          Quiet /\ get_prompts_by_category(c, k)
    \/ \E c \in Calls : \E q \in SearchQueries : Quiet /\ search_prompts(c, q)
    \/ \E c \in Calls : Quiet /\ list_categories(c)
    \/ \E c \in Calls : \E b \in QueryBatchIds : fetchPrompts_resolve(c, b)
    \/ \E c \in Calls : fetchPrompts_reject(c)
    \/ Quiet /\ clearCache

SpecQueries == Init /\ [][NextQueries]_vars

\* The database's contents of every kind, read and composed from by one
\* call at a time.
TemplateNames == {NameT, NameF, NameG}
TemplateInputs == {<<"X">>, <<"D", "A", "T", "E">>}

NextContents ==
    \/ \E c \in Calls : Quiet /\ getPrompts(c)
    \/ \E c \in Calls : Quiet /\ refreshCache(c)
    \/ \E c \in Calls : Quiet /\ getPromptList(c)
    \/ \E c \in Calls : \E n \in TemplateNames : \E u \in TemplateInputs :
          Quiet /\ composePrompt(c, n, u)
    \/ \E c \in Calls : \E b \in BatchIds : fetchPrompts_resolve(c, b)
    \/ \E c \in Calls : fetchPrompts_reject(c)
    \/ Quiet /\ clearCache

SpecContents == Init /\ [][NextContents]_vars

\* Pages of the list, asked for through the tool and from the service,
\* on lists of four prompts, two, and none.
PageNumbers == {-1, 0, 1, 2, 3, 100}
PageSizes == {-1, 0, 1, 2, 3, 10}
PageArguments == {Undefined} \cup {Defined(n) : n \in PageNumbers}
PageSizeArguments == {Undefined} \cup {Defined(n) : n \in PageSizes}
PageBatchIds == {2, 3, 4}

NextPages ==
    \/ \E c \in Calls : \E pg \in PageArguments : \E sz \in PageSizeArguments :
          Quiet /\ get_paginated_prompts(c, pg, sz)
    \/ \E c \in Calls : \E pg \in PageNumbers : \E sz \in PageSizes :
          Quiet /\ getPaginatedPrompts(c, pg, sz)
    \/ \E c \in Calls : \E b \in PageBatchIds : fetchPrompts_resolve(c, b)
    \/ \E c \in Calls : fetchPrompts_reject(c)
    \/ Quiet /\ clearCache

SpecPages == Init /\ [][NextPages]_vars

\* The process from its start: every configuration, main(), and requests
\* once the transport is connected.
Serving == server.phase = "serving"

ConfiguredModes == Modes \cup {"", "bogus"}
ConfiguredExpiryTimes == {Undefined, Defined(0), Defined(500)}

InitStartup ==
    /\ InitService
    /\ server \in {ServerConfig(k, d, m, e) :
                     k \in BOOLEAN, d \in BOOLEAN, m \in ConfiguredModes,
                     e \in ConfiguredExpiryTimes}

NextStartup ==
    \/ \E c \in Calls : main(c)
    \/ \E c \in Calls : \E b \in CacheBatchIds : fetchPrompts_resolve(c, b)
    \/ \E c \in Calls : fetchPrompts_reject(c)
    \/ \E c \in Calls : \E n \in ServerNames : \E u \in ServerInputs :
          Serving /\ Quiet /\ compose_prompt(c, n, u)
    \/ \E c \in Calls : \E n \in ServerNames : \E u \in ServerInputs :
          Serving /\ Quiet /\ process_composed_prompt(c, n, u)

SpecStartup == InitStartup /\ [][NextStartup]_vars

\* process_category_prompts, alone or with a refresh_prompts request or a
\* clearCache handled while its call awaits the connector.  The clock
\* advances between any two steps: the snapshot's age can reach
\* cacheExpiryTime between two iterations of the loop.
CategoryBatchIds == {1, 2, 6}

NextCategory ==
    \/ \E c \in Calls : \E k \in ServerCategories : \E u \in ServerInputs :
          Quiet /\ process_category_prompts(c, k, u)
    \/ \E c \in Calls : process_category_prompts_next(c)
    \/ \E c \in Calls : (Quiet \/ JobWaiting) /\ refresh_prompts(c)
    \/ (Quiet \/ JobWaiting) /\ clearCache
    \/ \E c \in Calls : \E b \in CategoryBatchIds :
          ~JobRunning /\ fetchPrompts_resolve(c, b)
    \/ \E c \in Calls : ~JobRunning /\ fetchPrompts_reject(c)
    \/ \E d \in TickDeltas : Tick(d)

SpecCategory == Init /\ [][NextCategory]_vars

\* The cache's readers with a connector that answers every query, with a
\* list or with a failure: the connector call of each slot completes.
\* Time passes between the calls, where it decides what the next call
\* finds.
Completes(c) ==
    \/ \E b \in CacheBatchIds : fetchPrompts_resolve(c, b)
    \/ fetchPrompts_reject(c)

NextRecover ==
    \/ \E c \in Calls : getPrompts(c)
    \/ \E c \in Calls : refreshCache(c)
    \/ \E c \in Calls : \E b \in CacheBatchIds : fetchPrompts_resolve(c, b)
    \/ \E c \in Calls : fetchPrompts_reject(c)
    \/ \E d \in TickDeltas : InFlight = {} /\ Tick(d)

SpecRecover ==
    /\ Init
    /\ [][NextRecover]_vars
    /\ \A c \in Calls : WF_vars(Completes(c))

\* The query operations and the operations that replace the snapshot: a
\* query begins when no call is under way, refreshCache and clearCache at
\* any time, the clock advances.
NextFrame ==
    \/ \E c \in Calls : \E n \in ServerNames : Quiet /\ findPromptByName(c, n)
    \/ \E c \in Calls : \E id \in ServerIds : Quiet /\ findPromptById(c, id)
    \/ \E c \in Calls : Quiet /\ getPromptList(c)
    \/ \E c \in Calls : \E n \in ServerNames : \E u \in ServerInputs :
          Quiet /\ composePrompt(c, n, u)
    \/ \E c \in Calls : \E q \in ServerQueries : Quiet /\ search_prompts(c, q)
    \/ \E c \in Calls : \E k \in ServerCategories :
          Quiet /\ get_prompts_by_category(c, k)
    \/ \E c \in Calls : Quiet /\ list_categories(c)
    \/ \E c \in Calls : refreshCache(c)
    \/ clearCache
    \/ \E c \in Calls : \E b \in CacheBatchIds : fetchPrompts_resolve(c, b)
    \/ \E c \in Calls : fetchPrompts_reject(c)
    \/ \E d \in TickDeltas : Tick(d)

SpecFrame == Init /\ [][NextFrame]_vars

\* The three tools that log the user input, on inputs of one character,
\* of exactly maxLength characters and of one more.
AtLimit == [i \in 1..DefaultMaxLength |-> "u"]
OverLimit == Append(AtLimit, "v")
LogInputs == {<<"X">>, AtLimit, OverLimit}

NextLog ==
    \/ \E c \in Calls : \E n \in ServerNames : \E u \in LogInputs :
          Quiet /\ compose_prompt(c, n, u)
    \/ \E c \in Calls : \E n \in ServerNames : \E u \in LogInputs :
          Quiet /\ process_composed_prompt(c, n, u)
    \/ \E c \in Calls : \E k \in ServerCategories : \E u \in LogInputs :
          Quiet /\ process_category_prompts(c, k, u)
    \/ \E c \in Calls : process_category_prompts_next(c)
    \/ \E c \in Calls : \E b \in CacheBatchIds : fetchPrompts_resolve(c, b)
    \/ \E c \in Calls : fetchPrompts_reject(c)

SpecLog == Init /\ [][NextLog]_vars

\* ------------------------------------------------------------- properties

\* The lists a connector answer normalises to, each as a whole.
WholeFetches == {NormalizeBatch(Batches[b]) : b \in BatchIds}

\* C1: a getPrompts call that starts after a getPrompts has fetched
\* successfully, with no refreshCache or clearCache since and the snapshot
\* younger than cacheExpiryTime, issues no connector query and returns
\* the cached list.
C1_SecondGetPromptsIsServedFromCache ==
    /\ \A c \in InFlight : ~calls[c].fresh
    /\ (ret.kind = "get" /\ ret.fresh) =>
          /\ ~ret.fetched
          /\ ret.tag = "prompts"
          /\ ~ret.preCache.null
          /\ ret.prompts = ret.preCache.items

\* C1's case: such a call has returned, the snapshot being 150 s old.
C1_Witness ==
    /\ ret.kind = "get" /\ ret.fresh /\ ret.tag = "prompts"
    /\ now - lastCacheTime = 150000

\* C2: at most one connector query is outstanding in every reachable state.
C2_AtMostOneFetchOutstanding == Cardinality(InFlight) <= 1

\* C3: the stored snapshot and every list a call returns is, in full, the
\* normalised answer of one connector query: the one the call awaited, or
\* for a call answered from the cache the snapshot it found.
C3_ReturnedListIsOneWholeFetch ==
    /\ ~promptsCache.null => promptsCache.items \in WholeFetches
    /\ ret.tag = "prompts" =>
          /\ ret.prompts \in WholeFetches
          /\ ret.fetched => ret.prompts = NormalizeBatch(Batches[ret.response])
          /\ ~ret.fetched => ret.prompts = ret.preCache.items

\* C3's case: a getPrompts call returns a list while a refreshCache is
\* awaiting the connector.
C3_Witness ==
    /\ ret.kind = "get" /\ ret.tag = "prompts" /\ Len(ret.prompts) > 0
    /\ \E c \in InFlight : calls[c].kind = "refresh"

\* C4: when the connector call of an operation fails, and no other
\* operation touched the store meanwhile, the snapshot and its timestamp
\* are what they were before the operation was invoked.
C4_FailedFetchLeavesSnapshot == (ret.tag = "error" /\ ret.solo) => ret.intact

\* C5: a getPrompts call that finds the snapshot absent or of age >=
\* cacheExpiryTime issues a connector query; it returns that query's
\* answer or fails, and never returns the list it found.
C5_GetPromptsNeverServesExpired ==
    (ret.kind = "get" /\ ret.stale) =>
       /\ ret.fetched
       /\ ret.tag \in {"prompts", "error"}
       /\ ret.tag = "prompts" => ret.prompts = NormalizeBatch(Batches[ret.response])

\* C5's case: getPrompts found a snapshot of age exactly cacheExpiryTime,
\* its query failed and the call failed, the expired snapshot still stored.
C5_Witness ==
    /\ ret.kind = "get" /\ ret.stale /\ ret.tag = "error"
    /\ ~promptsCache.null
    /\ cacheExpiryTime = 300000
    /\ now - lastCacheTime = cacheExpiryTime

\* C6: the stored snapshot is never replaced by the answer of a connector
\* query that was issued before the query whose answer is stored.
C6_NoOlderFetchReplacesNewer == ~ret.overwroteNewer

\* C7: the first getPrompts call that starts after clearCache issues a
\* connector query.
C7_FirstGetPromptsAfterClearFetches ==
    (ret.kind = "get" /\ ret.afterClear) => ret.fetched

\* C8: every refreshCache call issues a connector query, whatever the
\* snapshot's age; when the query succeeds the call returns the newly
\* fetched list, and that list is the stored snapshot.
C8_RefreshCacheAlwaysFetches ==
    ret.kind = "refresh" =>
       /\ ret.fetched
       /\ ret.tag \in {"prompts", "error"}
       /\ ret.tag = "prompts" =>
             /\ ret.prompts = NormalizeBatch(Batches[ret.response])
             /\ promptsCache = Snapshot(ret.prompts)

\* C8's case: a refreshCache invoked on a valid cache has returned a list.
C8_Witness ==
    ret.kind = "refresh" /\ ~ret.stale /\ ret.tag = "prompts"

\* C9: cacheExpiryTime is at least 1000 in every reachable state: 300000
\* until setCacheExpiryTime is called, max(t, 1000) after
\* setCacheExpiryTime(t), and getCacheExpiryTime returns it.
C9_ExpiryFloor ==
    /\ cacheExpiryTime >= 1000
    /\ getCacheExpiryTime = cacheExpiryTime
    /\ cacheExpiryTime =
          IF ~lastExpiryArg.defined THEN 300000
          ELSE IF lastExpiryArg.val > 1000 THEN lastExpiryArg.val ELSE 1000

\* C9's case: setCacheExpiryTime(500) has run.
C9_Witness == lastExpiryArg = Defined(500) /\ cacheExpiryTime = 1000

\* The keys of the contextual placeholders.
ContextKeys == {CURRENT_DATE, CURRENT_TIME, CURRENT_DATETIME, PROMPT_NAME}

\* C10: a contextual placeholder written in userInput appears unchanged in
\* the composed text wherever the template had {{USER_INPUT}}.
C10_UserInputIsNotExpanded ==
    (ret.kind = "compose" /\ ret.tag = "text") =>
       \A key \in ContextKeys :
          (/\ Contains(ret.userInput, Placeholder(key))
           /\ Contains(ret.prompt.val.content, Placeholder(USER_INPUT)))
          => Contains(ret.text, ret.userInput)

\* How often pat occurs in s.
Occurrences(s, pat) == Cardinality({i \in 1..Len(s) : MatchAt(s, pat, i)})

\* C11: the composed text holds as many verbatim copies of userInput as the
\* template has {{USER_INPUT}} tokens, for every non-empty userInput, the
\* ones with "$&" or "$$" in them included.  (A userInput with a
\* placeholder in it is C10's case and left aside here.)
C11_UserInputIsInsertedVerbatim ==
    (ret.kind = "compose" /\ ret.tag = "text" /\ ~Contains(ret.userInput, LB)) =>
       Occurrences(ret.text, ret.userInput)
          >= Occurrences(ret.prompt.val.content, Placeholder(USER_INPUT))

\* C12: every request handler ends with a result object, a success or an
\* error text, whatever the cache's state and the connector's answer; no
\* exception leaves a handler.
C12_EveryHandlerReturnsAResult ==
    ret.handler # "none" => ret.reply.tag \in {"content", "errorResponse"}

\* The request that ended looked something up in an obtained snapshot and
\* nothing in it matched.
NoMatch ==
    /\ ret.tag \notin {"none", "error"}
    /\ \/ /\ ret.handler \in {"get_prompt_by_name", "compose_prompt"}
          /\ ret.promptName # <<>>
          /\ ret.handler = "compose_prompt" => ret.userInput # <<>>
          /\ \A i \in 1..Len(ret.snapshot) : ret.snapshot[i].name # ret.promptName
       \/ /\ ret.handler = "ReadResource"
          /\ \A i \in 1..Len(ret.snapshot) : ret.snapshot[i].id # ret.id
       \/ /\ ret.handler = "get_prompts_by_category"
          /\ \A i \in 1..Len(ret.snapshot) :
                \A k \in 1..Len(ret.snapshot[i].category) :
                   ret.snapshot[i].category[k] # ret.category

\* C13: when the name, id or category of a request matches no prompt of
\* the snapshot, get_prompt_by_name, compose_prompt,
\* get_prompts_by_category and the read-resource handler end with a result
\* object, a not-found message or an empty list, and raise nothing.
C13_NoMatchIsANormalResult ==
    NoMatch =>
       /\ ret.reply.tag \in {"content", "errorResponse"}
       /\ ret.reply.tag = "errorResponse" => ret.reply.message = "notFound"
       /\ ret.reply.tag = "content" => ret.reply.list = <<>>

\* The positions of the snapshot a findPromptByName / findPromptById call
\* got at which the name / id is exactly the argument.
NameHits == {i \in 1..Len(ret.snapshot) : ret.snapshot[i].name = ret.promptName}
IdHits == {i \in 1..Len(ret.snapshot) : ret.snapshot[i].id = ret.id}
First(hits) == CHOOSE i \in hits : \A j \in hits : i <= j

\* C14: on a snapshot it obtained, findPromptByName returns the first
\* prompt in snapshot order whose name is exactly the argument, also when
\* several have that name or another differs from it in case only, and
\* null when none has it; findPromptById likewise for the id.
C14_FindReturnsFirstExactMatch ==
    /\ (ret.kind = "findByName" /\ ret.tag # "error") =>
          IF NameHits = {} THEN ret.tag = "null" /\ ~ret.prompt.defined
          ELSE /\ ret.tag = "prompt"
               /\ ret.prompt = Defined(ret.snapshot[First(NameHits)])
    /\ (ret.kind = "findById" /\ ret.tag # "error") =>
          IF IdHits = {} THEN ret.tag = "null" /\ ~ret.prompt.defined
          ELSE /\ ret.tag = "prompt"
               /\ ret.prompt = Defined(ret.snapshot[First(IdHits)])

\* C14's case: findPromptByName("T") on a snapshot where two prompts are
\* named "T" and an earlier one "t" has returned the first "T".
C14_Witness ==
    /\ ret.kind = "findByName" /\ ret.tag = "prompt"
    /\ Cardinality(NameHits) = 2
    /\ \E j \in 1..Len(ret.snapshot) :
          /\ j < First(NameHits)
          /\ toLowerCase(ret.snapshot[j].name) = toLowerCase(ret.promptName)
    /\ ret.prompt.val.id = "p6"

\* The connector call made for the call that ended has failed.
ConnectorFailed == ret.fetched /\ ret.response = 0

\* C15: a call whose connector call failed ends in an error: the service
\* method throws, the handler ends with an error text or lets the
\* exception through (refresh_prompts and list_prompts: an error text);
\* it never ends as a success with a list.
C15_FailedFetchIsNeverASuccess ==
    ConnectorFailed =>
       /\ ret.tag = "error"
       /\ ret.prompts = <<>>
       /\ ret.handler # "none" =>
             /\ ret.reply.tag \in {"errorResponse", "throws"}
             /\ ret.reply.message = "failed"
       /\ ret.handler \in {"refresh_prompts", "list_prompts"} =>
             ret.reply.tag = "errorResponse"

\* C15's case: list_prompts found an expired snapshot, its connector call
\* failed, and it has ended with an error text; the expired snapshot is
\* still stored.
C15_Witness ==
    /\ ret.handler = "list_prompts" /\ ConnectorFailed
    /\ ret.reply.tag = "errorResponse"
    /\ ~promptsCache.null /\ Len(promptsCache.items) > 0
    /\ now - lastCacheTime >= cacheExpiryTime

\* The positions of the snapshot a search_prompts request got at which
\* name, description or content has the lower-cased query in it.
SearchHits ==
    {i \in 1..Len(ret.snapshot) :
       \/ Contains(toLowerCase(ret.snapshot[i].name), toLowerCase(ret.query))
       \/ Contains(toLowerCase(ret.snapshot[i].description), toLowerCase(ret.query))
       \/ Contains(toLowerCase(ret.snapshot[i].content), toLowerCase(ret.query))}

\* C16: search_prompts returns the matching prompts, each once and in
\* snapshot order, with matchType "name" when the lower-cased query is in
\* the lower-cased name, else "description" when it is in the lower-cased
\* description, else "content"; a prompt that matches in no field is absent.
C16_SearchClassifiesByFirstMatchingField ==
    (ret.handler = "search_prompts" /\ ret.reply.tag = "content") =>
       /\ Len(ret.reply.list) = Cardinality(SearchHits)
       /\ \A k \in 1..Len(ret.reply.list) :
             \E i \in SearchHits :
                /\ Cardinality({j \in SearchHits : j <= i}) = k
                /\ ret.reply.list[k].id = ret.snapshot[i].id
                /\ ret.reply.list[k].name = ret.snapshot[i].name
                /\ ret.reply.list[k].matchType =
                      IF Contains(toLowerCase(ret.snapshot[i].name),
                                  toLowerCase(ret.query)) THEN "name"
                      ELSE IF Contains(toLowerCase(ret.snapshot[i].description),
                                       toLowerCase(ret.query)) THEN "description"
                      ELSE "content"

\* C16's case: the query "B" on four prompts: two match in the description
\* (one of them in the content as well), one in the content only, one not
\* at all.
C16_Witness ==
    /\ ret.handler = "search_prompts" /\ ret.reply.tag = "content"
    /\ ret.query = <<"B">>
    /\ Len(ret.snapshot) = 4 /\ Len(ret.reply.list) = 3
    /\ ret.reply.list[2].matchType = "description"
    /\ Contains(toLowerCase(ret.snapshot[3].content), <<"b">>)
    /\ ret.reply.list[2].id = ret.snapshot[3].id
    /\ ret.reply.list[3].matchType = "content"

\* C17: list_categories returns a list without duplicates whose elements
\* are the label "所有" and the labels the prompts carry, also when a
\* prompt carries "所有" itself.
C17_CategoriesAreDistinct ==
    (ret.handler = "list_categories" /\ ret.reply.tag = "content") =>
       /\ \A i, j \in 1..Len(ret.reply.list) :
             ret.reply.list[i] = ret.reply.list[j] => i = j
       /\ {ret.reply.list[i] : i \in 1..Len(ret.reply.list)} =
             {ALL_LABEL} \cup
             UNION {{ret.snapshot[i].category[k] :
                        k \in 1..Len(ret.snapshot[i].category)} :
                    i \in 1..Len(ret.snapshot)}

\* The arguments that mean every category.
AllArguments == {<<"a", "l", "l">>, <<"A", "L", "L">>, <<"A", "l", "l">>, ALL_LABEL}

\* C18: get_prompts_by_category with "all" in any letter case or with
\* "所有" returns every prompt of the snapshot in snapshot order, the ones
\* whose only label is "未分类" included.
C18_AllReturnsEveryPrompt ==
    (/\ ret.handler = "get_prompts_by_category"
     /\ ret.reply.tag = "content"
     /\ ret.category \in AllArguments) =>
       /\ Len(ret.reply.list) = Len(ret.snapshot)
       /\ \A i \in 1..Len(ret.snapshot) :
             /\ ret.reply.list[i].id = ret.snapshot[i].id
             /\ ret.reply.list[i].name = ret.snapshot[i].name
             /\ ret.reply.list[i].description = ret.snapshot[i].description
             /\ ret.reply.list[i].category = ret.snapshot[i].category

\* C18's case: the argument "ALL" on a snapshot of four prompts, one of
\* them with the label "未分类" only and none with a label "ALL".
C18_Witness ==
    /\ ret.handler = "get_prompts_by_category" /\ ret.reply.tag = "content"
    /\ ret.category = <<"A", "L", "L">>
    /\ Len(ret.reply.list) = 4
    /\ \E i \in 1..Len(ret.snapshot) : ret.snapshot[i].category = <<UNCATEGORIZED>>

\* The mode in force for the composeAndHandlePrompt call that ended.
EffectiveMode == IF ret.mode # "" THEN ret.mode ELSE promptHandlingMode

\* C19: composeAndHandlePrompt, through handleComposedPrompt, goes by its
\* mode argument when it has one and by promptHandlingMode otherwise: for
\* return_only the result is the composed text with
\* NO_FURTHER_PROCESSING_REQUIRED, for process_locally the composed text
\* with PROCESS_WITH_CURRENT_LLM.
C19_ModeArgumentOverridesDefault ==
    (ret.handle /\ ret.tag = "text" /\ ret.text # <<>>) =>
       /\ EffectiveMode = "return_only" =>
             /\ ~ret.handled.null
             /\ ret.handled.text = ret.text
             /\ ret.handled.metadata
             /\ ret.handled.processingInstruction = "NO_FURTHER_PROCESSING_REQUIRED"
       /\ EffectiveMode = "process_locally" =>
             /\ ~ret.handled.null
             /\ ret.handled.text = ret.text
             /\ ret.handled.metadata
             /\ ret.handled.processingInstruction = "PROCESS_WITH_CURRENT_LLM"

\* C19's case: promptHandlingMode is call_external_api and a call with the
\* argument process_locally has returned the composed text with
\* PROCESS_WITH_CURRENT_LLM.
C19_Witness ==
    /\ ret.handle /\ ret.tag = "text"
    /\ ret.mode = "process_locally" /\ promptHandlingMode = "call_external_api"
    /\ ret.handled.text = ret.text /\ ret.text = ret.userInput
    /\ ret.handled.processingInstruction = "PROCESS_WITH_CURRENT_LLM"

C21_DefaultModeIsProcessLocally ==
    (Serving /\ server.handlingMode = "") =>
       /\ getPromptHandlingMode = "process_locally"
       /\ (ret.handler = "compose_prompt" /\ ret.tag = "text") =>
             /\ ret.reply.tag = "content"
             /\ ret.reply.text = ret.text
             /\ ret.reply.processingInstruction = "PROCESS_WITH_CURRENT_LLM"

\* C22: promptHandlingMode changes in steps of setPromptHandlingMode only:
\* no step of composeAndHandlePrompt, with or without a mode argument, of
\* another query, of the connector's answer or of clearCache changes it.
C22_ModeChangesOnlyThroughSetter ==
    [][promptHandlingMode' # promptHandlingMode =>
          \E m \in Modes : setPromptHandlingMode(m)]_vars

\* C22's case: the setter made process_locally the default, and a
\* composeAndHandlePrompt call with the argument call_external_api has
\* gone by its argument and left the default as it was.
C22_Witness ==
    /\ ret.handle /\ ret.mode = "call_external_api"
    /\ ret.handled.text = NotImplementedText
    /\ getPromptHandlingMode = "process_locally"

\* A credential is missing from the configuration.
MissingCredentials == ~server.notionApiKey \/ ~server.notionDatabaseId

\* C23: when the API key or the database id is missing, the process is
\* never past its start except as exited: the transport is never
\* connected, no connector query is ever issued or answered, and no
\* request is ever served.
C23_NoCredentialsNoService ==
    MissingCredentials =>
       /\ server.phase \in {"starting", "exited"}
       /\ InFlight = {}
       /\ promptsCache.null /\ lastCacheTime = NoCacheTime
       /\ ret = NoReturn

\* C23's case: a process started with the API key and without the
\* database id has run main() and exited.
C23_Witness ==
    /\ server.notionApiKey /\ ~server.notionDatabaseId
    /\ server.phase = "exited"

\* The batch the connector answered the call that ended with.
Answered == ret.fetched /\ ret.response # 0
Upstream == Batches[ret.response]

\* An upstream record whose name field is missing or empty: no title
\* property, an empty title array, or a title whose text is empty.
Nameless(page) ==
    \/ ~page.title.defined
    \/ Len(page.title.val) = 0
    \/ \A k \in 1..Len(page.title.val) : page.title.val[k] = <<>>

\* C24: every prompt of every stored snapshot has a non-empty name, and
\* no prompt of a snapshot comes from an upstream record whose name field
\* is missing or empty.
C24_EveryPromptHasAName ==
    /\ ~promptsCache.null =>
          \A i \in 1..Len(promptsCache.items) : promptsCache.items[i].name # <<>>
    /\ Answered =>
          \A i \in 1..Len(Upstream) :
             Nameless(Upstream[i]) =>
                \A k \in 1..Len(ret.snapshot) : ret.snapshot[k].id # Upstream[i].id

\* The labels of an upstream record, none when it has no category property.
LabelsOf(page) == IF page.category.defined THEN page.category.val ELSE <<>>

\* C25: every prompt of every stored snapshot has at least one category
\* label: exactly the label "未分类" when its upstream record has no
\* labels, exactly the record's labels in their order otherwise.
C25_CategoriesAreNeverEmpty ==
    /\ ~promptsCache.null =>
          \A i \in 1..Len(promptsCache.items) :
             Len(promptsCache.items[i].category) > 0
    /\ Answered =>
          /\ promptsCache = Snapshot(ret.snapshot)
          /\ \A k \in 1..Len(ret.snapshot) : \A i \in 1..Len(Upstream) :
                ret.snapshot[k].id = Upstream[i].id =>
                   ret.snapshot[k].category =
                      IF Len(LabelsOf(Upstream[i])) = 0 THEN <<UNCATEGORIZED>>
                      ELSE LabelsOf(Upstream[i])

\* C25's case: a snapshot with a prompt of two labels and a prompt whose
\* record had an empty label list.
C25_Witness ==
    /\ Answered /\ ret.response = 2
    /\ \E k \in 1..Len(ret.snapshot) :
          ret.snapshot[k].id = "p3" /\ ret.snapshot[k].category = <<UNCATEGORIZED>>
    /\ \E k \in 1..Len(ret.snapshot) :
          ret.snapshot[k].id = "p1" /\ ret.snapshot[k].category = <<LabelX, LabelY>>

\* The records of the batch that normalise: the ones with properties and
\* a title of at least one segment.
Normalizes(page) ==
    page.hasProperties /\ page.title.defined /\ Len(page.title.val) > 0
Kept == {i \in 1..Len(Upstream) : Normalizes(Upstream[i])}

\* The first n segments of an optional text, one after the other.
RECURSIVE Concatenation(_, _)
Concatenation(prop, n) ==
    IF ~prop.defined \/ n = 0 THEN <<>>
    ELSE Concatenation(prop, n - 1) \o prop.val[n]
WholeText(prop) ==
    Concatenation(prop, IF prop.defined THEN Len(prop.val) ELSE 0)

\* C26: a connector answer with records that are skipped or whose
\* normalisation throws yields a snapshot all the same: the records that
\* normalise, in upstream order, each with the concatenation of its
\* content segments as content and of its description segments as
\* description, the empty text where the property is absent.
C26_OneBadRecordDoesNotAbortTheBatch ==
    Answered =>
       /\ ret.tag # "error"
       /\ Len(ret.snapshot) = Cardinality(Kept)
       /\ \A k \in 1..Len(ret.snapshot) :
             \E i \in Kept :
                /\ Cardinality({j \in Kept : j <= i}) = k
                /\ ret.snapshot[k].id = Upstream[i].id
                /\ ret.snapshot[k].content = WholeText(Upstream[i].content)
                /\ ret.snapshot[k].description = WholeText(Upstream[i].description)

\* C26's case: a batch of three records, the second without properties;
\* the snapshot has the first and the third, the third with a content of
\* three segments and an empty description.
C26_Witness ==
    /\ Answered /\ Len(Upstream) = 3 /\ ~Upstream[2].hasProperties
    /\ Len(ret.snapshot) = 2
    /\ ret.snapshot[2].id = Upstream[3].id
    /\ ret.snapshot[2].content =
          Placeholder(PROMPT_NAME) \o <<":">> \o Placeholder(USER_INPUT)
    /\ ret.snapshot[2].description = <<>>

\* The five placeholders composePrompt knows.
Tokens ==
    {Placeholder(key) : key \in {USER_INPUT} \cup ContextKeys}
TokenAt(s, i) == \E t \in Tokens : MatchAt(s, t, i)
TokenLengthAt(s, i) == Len(CHOOSE t \in Tokens : MatchAt(s, t, i))

\* The parts of template s from position i on that lie between its
\* tokens, in order; `part` is the part being read.
RECURSIVE Literals(_, _, _)
Literals(s, i, part) ==
    IF i > Len(s) THEN <<part>>
    ELSE IF TokenAt(s, i)
    THEN <<part>> \o Literals(s, i + TokenLengthAt(s, i), <<>>)
    ELSE Literals(s, i + 1, Append(part, s[i]))

\* out consists of some text followed by the parts, in order, with some
\* text between each two of them, and ends with the last part.
RECURSIVE EndsInParts(_, _)
EndsInParts(out, parts) ==
    IF parts = <<>> THEN out = <<>>
    ELSE \E j \in 1..(Len(out) + 1) :
            /\ MatchAt(out, Head(parts), j)
            /\ IF Len(parts) = 1 THEN j + Len(Head(parts)) - 1 = Len(out)
               ELSE EndsInParts(SubSeq(out, j + Len(Head(parts)), Len(out)),
                                Tail(parts))

\* out is the template's parts between tokens, in place, with some text
\* where each token was.
KeepsParts(out, parts) ==
    /\ MatchAt(out, Head(parts), 1)
    /\ IF Len(parts) = 1 THEN out = Head(parts)
       ELSE EndsInParts(SubSeq(out, Len(Head(parts)) + 1, Len(out)), Tail(parts))

\* C29: the text composePrompt returns has every part of the template
\* that lies between recognized tokens unchanged and in place,
\* unrecognized placeholders such as {{FOO}} and {{user_input}} included,
\* and, for a userInput and a prompt name without braces, none of the
\* recognized tokens left in it.
C29_OnlyRecognizedTokensAreReplaced ==
    (ret.kind = "compose" /\ ret.tag = "text") =>
       /\ KeepsParts(ret.text, Literals(ret.prompt.val.content, 1, <<>>))
       /\ (~Contains(ret.userInput, LB) /\ ~Contains(ret.promptName, LB)) =>
             \A t \in Tokens : ~Contains(ret.text, t)

\* C30: getPromptList returns a list as long as the list getPrompts gave
\* it, whose i-th element has the id, name, description and category of
\* the i-th prompt and no other field.
C30_PromptListProjectsTheSnapshot ==
    (ret.kind = "list" /\ ret.tag = "prompts") =>
       /\ Len(ret.prompts) = Len(ret.snapshot)
       /\ \A i \in 1..Len(ret.snapshot) :
             /\ DOMAIN ret.prompts[i] = {"id", "name", "description", "category"}
             /\ ret.prompts[i].id = ret.snapshot[i].id
             /\ ret.prompts[i].name = ret.snapshot[i].name
             /\ ret.prompts[i].description = ret.snapshot[i].description
             /\ ret.prompts[i].category = ret.snapshot[i].category

\* C30's case: getPromptList on four prompts with contents, two of them
\* with the same name.
C30_Witness ==
    /\ ret.kind = "list" /\ ret.tag = "prompts"
    /\ Len(ret.prompts) = 4
    /\ ret.prompts[2].name = ret.prompts[3].name
    /\ ret.prompts[2].id # ret.prompts[3].id
    /\ \A i \in 1..4 : ret.snapshot[i].content # <<>>

C28_PageAndPageSizeAreClampedToOne ==
    (/\ ret.handler = "get_paginated_prompts" /\ ret.tag = "page"
     /\ ret.pageArg.defined /\ ret.pageSizeArg.defined) =>
       LET p == IF ret.pageArg.val > 1 THEN ret.pageArg.val ELSE 1
           s == IF ret.pageSizeArg.val > 1 THEN ret.pageSizeArg.val ELSE 1
           window == {i \in 1..Len(ret.snapshot) :
                        (p - 1) * s < i /\ i <= p * s}
       IN /\ Len(ret.paginated.items) = Cardinality(window)
          /\ \A k \in 1..Len(ret.paginated.items) :
                /\ (p - 1) * s + k \in window
                /\ ret.paginated.items[k].id = ret.snapshot[(p - 1) * s + k].id
          /\ ret.paginated.totalPages * s >= Len(ret.snapshot)
          /\ ret.paginated.totalPages * s < Len(ret.snapshot) + s

\* A process_category_prompts request has answered with its results.
CategoryAnswered ==
    ret.handler = "process_category_prompts" /\ ret.reply.tag = "content"

\* C31: a process_category_prompts request computes its whole response
\* from one snapshot, the one it read when it began: every list a call
\* of its loop is given is that list, whatever expires, is refreshed,
\* cleared or fetched while the loop runs.
C31_CategoryResponseFromOneSnapshot ==
    /\ job.active => job.single
    /\ CategoryAnswered => ret.single

\* The prompts of list `prompts` that process_category_prompts keeps for
\* `category`.
FilterByCategory(prompts, category) ==
    LET Has(p) == Includes(p.category, category)
    IN SelectSeq(prompts, Has)

\* C32: when every call of the loop was given the list the request read
\* when it began, the response has one result per prompt of that list
\* whose labels contain the category, in the list's order, and the i-th
\* result is the i-th such prompt's own content composed with the input.
C32_OneResultPerPromptOfTheCategory ==
    (CategoryAnswered /\ ret.single /\ ret.userInput # <<>>) =>
       LET filteredPrompts == FilterByCategory(ret.listed, ret.category)
       IN /\ Len(ret.reply.list) = Len(filteredPrompts)
          /\ \A i \in 1..Len(filteredPrompts) :
                i <= Len(ret.reply.list) =>
                   /\ ret.reply.list[i].promptName = filteredPrompts[i].name
                   /\ ret.reply.list[i].result =
                         Substitute(filteredPrompts[i].content,
                                    filteredPrompts[i].name, ret.userInput, now)

\* A composePrompt or composeAndHandlePrompt call has returned without a
\* failure, the snapshot being there: `known` tells whether the snapshot
\* has a prompt with exactly the name asked for.  The list is the one the
\* call was given, or for a call that returned before it asked for one
\* the stored one.
Composed == ret.kind = "compose" /\ ret.tag \in {"text", "null"}
ReturnedEarly == ret.promptName = <<>> \/ ret.userInput = <<>>
NameKnown ==
    FindByName(IF ReturnedEarly THEN promptsCache.items ELSE ret.snapshot,
               ret.promptName).defined

\* C33: composePrompt and composeAndHandlePrompt return null exactly when
\* no prompt of the snapshot has the given name; for a prompt that exists
\* they return a result for every userInput, the empty one included.
C33_NullOnlyForAnAbsentName ==
    (Composed /\ (ReturnedEarly => ~promptsCache.null)) =>
       ((IF ret.handle THEN ret.handled.null ELSE ret.tag = "null")
          <=> ~NameKnown)

\* C34: the transport is connected only after the configuration was
\* validated and main()'s first getPrompts fetched successfully, in the
\* step in which that call returns; when that fetch fails the process
\* exits, and an exited process never connects or serves a request.
C34_ConnectsOnlyAfterTheInitialFetch ==
    [][/\ (server.phase # "serving" /\ server'.phase = "serving") =>
             /\ server.phase = "warming"
             /\ ValidConfig(server)
             /\ ret'.handler = "main" /\ ret'.tag = "prompts" /\ ret'.fetched
             /\ promptsCache' = Snapshot(ret'.prompts)
       /\ (ret'.handler = "main" /\ ret'.tag = "error") =>
             server'.phase = "exited"
       /\ server.phase = "exited" =>
             /\ server'.phase = "exited"
             /\ ret'.handler = "none"
       /\ ret'.handler \notin {"none", "main"} => server.phase = "serving"
      ]_vars

\* C34's case: a process with both credentials whose first fetch failed
\* has exited.
C34_Witness ==
    /\ ValidConfig(server)
    /\ server.phase = "exited"
    /\ ret.handler = "main" /\ ret.tag = "error" /\ ret.fetched

\* The call that ended in the last step failed in its fetch, and no other
\* operation touched the store while it ran.
FetchFailed == ret.tag = "error" /\ ret.fetched /\ ret.solo

\* C35: when every connector call completes, every getPrompts and
\* refreshCache call returns or fails; a getPrompts call that follows a
\* failed fetch is not answered from the store but issues a fetch; and a
\* getPrompts call whose fetch succeeds returns the fetched list, which
\* is then the stored one.
C35_FailedFetchNeverLeavesTheStoreStuck ==
    /\ \A c \in Calls : (c \in InFlight) ~> (c \notin InFlight)
    /\ [][FetchFailed => ~(ret'.kind = "get" /\ ~ret'.fetched)]_vars
    /\ [](FetchFailed =>
            ~isCacheValid(promptsCache, lastCacheTime, cacheExpiryTime, now))
    /\ []((ret.kind = "get" /\ ret.fetched /\ ret.tag = "prompts") =>
            /\ ret.prompts = NormalizeBatch(Batches[ret.response])
            /\ promptsCache = Snapshot(ret.prompts)
            /\ lastCacheTime = now)

\* C35's case: the fetch of a getPrompts call that found an expired
\* snapshot has failed, no other call being under way: the expired
\* snapshot is what the next getPrompts call finds.
C35_Witness ==
    /\ FetchFailed /\ ret.kind = "get"
    /\ ~promptsCache.null /\ now - lastCacheTime >= cacheExpiryTime
    /\ InFlight = {}

\* The prompts of `prompts` that carry a label equal to `category`.
Labelled(prompts, category) ==
    LET Carries(p) == \E i \in 1..Len(p.category) : p.category[i] = category
    IN SelectSeq(prompts, Carries)

\* C36: for a category argument that does not mean every category,
\* get_prompts_by_category returns, in the snapshot's order, exactly the
\* prompts one of whose labels equals the argument (the whole label, in
\* the same letter case), each as id, name, description and category
\* without content; when there is none the result is the empty list, not
\* an error.
C36_CategoryFilterIsExactMatch ==
    (/\ ret.handler = "get_prompts_by_category"
     /\ ret.tag # "error"
     /\ ret.category \notin AllArguments) =>
       LET expected == Labelled(ret.snapshot, ret.category)
       IN /\ ret.reply.tag = "content"
          /\ Len(ret.reply.list) = Len(expected)
          /\ \A i \in 1..Len(expected) :
                i <= Len(ret.reply.list) =>
                   /\ DOMAIN ret.reply.list[i] =
                         {"id", "name", "description", "category"}
                   /\ \A f \in {"id", "name", "description", "category"} :
                         ret.reply.list[i][f] = expected[i][f]

\* C36's case: the argument is a proper part of the label that a prompt
\* of the snapshot carries, and the result is the empty list.
C36_Witness ==
    /\ ret.handler = "get_prompts_by_category" /\ ret.reply.tag = "content"
    /\ ret.category = <<"wei">>
    /\ \E i \in 1..Len(ret.snapshot) : ret.snapshot[i].category = <<UNCATEGORIZED>>
    /\ ret.reply.list = <<>>

\* The kinds of call that the query operations make.
QueryKinds == {"findByName", "findById", "list", "compose", "get"}

\* A query operation was answered from the cache in the step.
ServedFromCache ==
    ret'.kind \in QueryKinds /\ ret'.tag # "none" /\ ~ret'.fetched

\* C37: the snapshot and its timestamp change only in the step in which
\* a fetch completes successfully (to the fetched list and the time of
\* that step), in clearCache (to none) and in the first step of
\* refreshCache (the snapshot to none); a query operation answered from
\* the cache leaves both as they were.
C37_OnlyFetchClearAndRefreshWriteTheStore ==
    [][/\ (promptsCache' # promptsCache \/ lastCacheTime' # lastCacheTime) =>
             \/ /\ ret'.fetched /\ ret'.tag # "error"
                /\ promptsCache' = Snapshot(ret'.snapshot)
                /\ lastCacheTime' = now
             \/ /\ promptsCache' = NullCache /\ lastCacheTime' = NoCacheTime
                /\ clearPending'
             \/ /\ promptsCache' = NullCache /\ lastCacheTime' = lastCacheTime
                /\ \E c \in Calls : /\ calls[c].kind = "none"
                                     /\ calls'[c].kind = "refresh"
       /\ ServedFromCache =>
             /\ promptsCache' = promptsCache
             /\ lastCacheTime' = lastCacheTime
      ]_vars

\* C37's case: findPromptByName was answered from a snapshot that is
\* 150 s old, and the snapshot and its timestamp are still the ones the
\* call found.
C37_Witness ==
    /\ ret.kind = "findByName" /\ ret.tag = "prompt" /\ ~ret.fetched
    /\ now - lastCacheTime = 150000
    /\ promptsCache = ret.preCache

Ellipsis == <<".", ".", ".">>

\* C38: the log entry that compose_prompt, process_composed_prompt and
\* process_category_prompts write never shows the whole user input: what
\* it shows of it is at most 30 of its first characters followed by an
\* ellipsis.
C38_LogShowsOnlyAPreview ==
    log.written =>
       /\ \E k \in 0..DefaultMaxLength :
             /\ k <= Len(log.userInput)
             /\ log.preview = SubSeq(log.userInput, 1, k) \o Ellipsis
       /\ ~Contains(log.preview, log.userInput)

====
